---------------------------- MODULE Spec2Model ----------------------------
(***************************************************************************)
(* Verification model of the reconstruction core of pdf-translator-ai:     *)
(*   - span/block matching and manual corrections (core/extract.py,        *)
(*     core/data_manager.py, gui/main_window.py)                           *)
(*   - the global style registry (core/extract.py)                         *)
(*   - merge groups (core/data_manager.py)                                 *)
(*   - reflow and merge-group redistribution (core/pdf_builder.py)         *)
(*                                                                         *)
(* Conventions                                                             *)
(*   - one page of 100 x 100 px, so a normalized coordinate c/100 is the   *)
(*     pixel coordinate c and the 0.02 bbox tolerance is 2 units.          *)
(*   - a text is a sequence of one-character strings.                      *)
(*   - a Python None / missing key is an explicit sentinel value.          *)
(*   - a font size is an integer number of hundredths of a point.          *)
(***************************************************************************)
EXTENDS Integers, Sequences, FiniteSets, TLC

VARIABLES
    pc,             \* position of the pipeline of the specification at hand
    pymupdf_spans,  \* spans extracted from the page (input of the enrichment)
    page_data,      \* layout blocks of the page (input of the enrichment)
    heap,           \* span objects: reference -> mutable matching fields
    enriched_data,  \* DataManager.enriched_data, one page: list of blocks
    nops,           \* number of correction operations done so far
    global_styles,  \* DualOutputGenerator.global_styles: N -> style of gsN
    style_mapping,  \* DualOutputGenerator.style_mapping: signature -> N
    block_additional_style_refs, \* block id -> (local key -> N)
    session_data,   \* session_data['global_styles'] as last persisted
    export_blocks,  \* the style fields of the blocks handed to the export
    calls,          \* get_or_create_global_style calls made on the registry
    exports,        \* what the successive exports produced
    translated_text,              \* translation of one merge group (tagged text)
    group_blocks_sorted,          \* the blocks of the group, by merge_order
    merged_groups_redistribution, \* the share of each block, or None
    merged_groups_compression,    \* the (font_scale, char_space) of the group
    rendered_lines,               \* lines drawn in each block of the group
    block_for_reflow,             \* one block that is in no merge group
    parsed_segments,              \* its translation parsed into segments
    ladder_lines,                 \* len(calculate_reflow) at each ladder value
    fitted,                       \* the layout kept for the block
    styled_text,                  \* a text with local style tags, as rewritten
    block_mapping,                \* style_mapping[block_id]: local tag -> global
    rewrites,                     \* the texts handed to the rewriting so far
    translation_data,             \* the records of _generate_translation_format
    history,                      \* StateManager.history
    history_index,                \* StateManager.history_index
    editor_data,                  \* the enriched data the editor window shows
    last_call,                    \* the last call made on the StateManager
    reverts                       \* number of undo and redo calls made so far

enrichVars == <<pymupdf_spans, page_data, heap, enriched_data, nops>>

styleVars == <<global_styles, style_mapping, block_additional_style_refs,
               session_data, export_blocks, calls, exports>>

blockVars == <<block_for_reflow, parsed_segments, ladder_lines, fitted>>

rewriteVars == <<styled_text, block_mapping, rewrites, translation_data>>

historyVars == <<history, history_index, editor_data, last_call, reverts>>

overlayVars == <<translated_text, group_blocks_sorted, merged_groups_redistribution,
                 merged_groups_compression, rendered_lines, blockVars, rewriteVars,
                 historyVars>>

vars == <<pc, enrichVars, styleVars, overlayVars>>

-----------------------------------------------------------------------------
(* Generic helpers                                                         *)

Range(f) == {f[i] : i \in DOMAIN f}

Max2(a, b) == IF a >= b THEN a ELSE b

Min2(a, b) == IF a <= b THEN a ELSE b

SetMax(S) == CHOOSE m \in S : \A x \in S : x <= m

SetMin(S) == CHOOSE m \in S : \A x \in S : m <= x

AbsDiff(a, b) == IF a >= b THEN a - b ELSE b - a

\* the elements of s that satisfy Keep, in order
RECURSIVE SelectIdx(_, _)
SelectIdx(s, keep) ==
    IF s = <<>> THEN <<>>
    ELSE LET rest == SelectIdx(Tail(s), {i - 1 : i \in keep \ {1}})
         IN IF 1 \in keep THEN <<Head(s)>> \o rest ELSE rest

\* the sum of the lengths of the texts of a sequence of spans
RECURSIVE SumLen(_)
SumLen(spans) == IF spans = <<>> THEN 0 ELSE Len(Head(spans).text) + SumLen(Tail(spans))

\* dict.get(name, default)
Field(rec, name, default) == IF name \in DOMAIN rec THEN rec[name] ELSE default

\* every sequence over S of length lo..hi
SeqsOf(S, lo, hi) == UNION {[1..n -> S] : n \in lo..hi}

-----------------------------------------------------------------------------
(* Bounds of the matching model                                            *)

MaxSpans == 2

MaxBlocks == 2

\* number of correction operations explored after the enrichment
MaxOps == 2

\* number of span objects (originals and copies made by link_spans_to_block)
MaxHeap == 4

-----------------------------------------------------------------------------
(* Texts                                                                   *)

IsSpace(c) == c \in {" ", "\n", "\t"}

\* str.lower() on the alphabet of the model
Lower(t) ==
    [i \in DOMAIN t |->
        IF t[i] = "A" THEN "a" ELSE IF t[i] = "B" THEN "b" ELSE t[i]]

\* str.strip()
Strip(t) ==
    LET ns == {i \in DOMAIN t : ~IsSpace(t[i])}
    IN IF ns = {} THEN <<>> ELSE SubSeq(t, SetMin(ns), SetMax(ns))

\* s in t  (substring test)
IsSubstr(s, t) ==
    \E i \in 0..(Len(t) - Len(s)) : SubSeq(t, i + 1, i + Len(s)) = s

\* set(str.split()): the maximal whitespace-free runs of t
WordSet(t) ==
    {SubSeq(t, p[1], p[2]) :
        p \in {q \in (DOMAIN t) \X (DOMAIN t) :
                 /\ q[1] <= q[2]
                 /\ \A k \in q[1]..q[2] : ~IsSpace(t[k])
                 /\ (q[1] = 1 \/ IsSpace(t[q[1] - 1]))
                 /\ (q[2] = Len(t) \/ IsSpace(t[q[2] + 1]))}}

DigitChars == <<"0", "1", "2", "3", "4", "5", "6", "7", "8", "9">>

DigitOf(c) == (CHOOSE d \in 1..10 : DigitChars[d] = c) - 1

RECURSIVE Digits(_)
Digits(n) == IF n < 10 THEN <<DigitChars[n + 1]>>
             ELSE Digits(n \div 10) \o <<DigitChars[(n % 10) + 1]>>

\* re.sub(r' +', ' ', text)
CollapseSpaces(t) ==
    SelectIdx(t, {i \in DOMAIN t : ~(t[i] = " " /\ i > 1 /\ t[i - 1] = " ")})

\* f"s{style_counter}" (line 549) and f"gs{next_number}" (line 1472)
LocalTag(K) == <<"s">> \o Digits(K)

GlobalTag(N) == <<"g", "s">> \o Digits(N)

\* f"<{tag}>" and f"</{tag}>" (lines 1303-1304)
OpenMarker(tag) == <<"<">> \o tag \o <<">">>

CloseMarker(tag) == <<"<", "/">> \o tag \o <<">">>

\* a replacement that stops after the first occurrence
RECURSIVE ReplaceFirstOnly(_, _, _)
ReplaceFirstOnly(t, old, new) ==
    IF Len(t) < Len(old) THEN t
    ELSE IF SubSeq(t, 1, Len(old)) = old
    THEN new \o SubSeq(t, Len(old) + 1, Len(t))
    ELSE <<Head(t)>> \o ReplaceFirstOnly(Tail(t), old, new)

\* str.replace(old, new): every occurrence, leftmost first, no overlap
RECURSIVE Replace(_, _, _)
Replace(t, old, new) ==
    IF Len(t) < Len(old) THEN t
    ELSE IF SubSeq(t, 1, Len(old)) = old
    THEN new \o Replace(SubSeq(t, Len(old) + 1, Len(t)), old, new)
    ELSE <<Head(t)>> \o Replace(Tail(t), old, new)

-----------------------------------------------------------------------------
(* Identifiers.  A block id, a matched_to_block value and None share one   *)
(* shape so that they can be compared, as Python compares them:            *)
(*   k = "none"    None                                                    *)
(*   k = "idx"     the integer index block_idx                             *)
(*   k = "bloc"    "page1_group0_blocNN"                                   *)
(*   k = "iso"     "page1_isolated_pymupdf_N"                              *)
(*   k = "custom"  "page1_custom_N"                                        *)

None == [k |-> "none", n |-> 0]

IdxVal(i) == [k |-> "idx", n |-> i]

BlocId(i) == [k |-> "bloc", n |-> i]

IsoId(i) == [k |-> "iso", n |-> i]

CustomId(i) == [k |-> "custom", n |-> i]

-----------------------------------------------------------------------------
(* Inputs of the enrichment                                                *)

\* extraction output: shapes (bbox = <<x0, y0, x1, y1>>, text, font, size
\* in hundredths of a point, colour, bold and italic flags) of a span
SpanShapes ==
    { [bbox |-> <<12, 12, 20, 14>>, text |-> <<"a", "b">>,
       font_name |-> "Arial", font_size |-> 1000, color_rgb |-> 0,
       is_bold |-> FALSE, is_italic |-> FALSE],
      [bbox |-> <<22, 23, 30, 25>>, text |-> <<"c", "d", " ", "a", "b">>,
       font_name |-> "Times", font_size |-> 1200, color_rgb |-> 0,
       is_bold |-> FALSE, is_italic |-> FALSE],
      [bbox |-> <<12, 22, 20, 24>>, text |-> <<"A", "b", " ">>,
       font_name |-> "Arial", font_size |-> 1000, color_rgb |-> 0,
       is_bold |-> TRUE, is_italic |-> FALSE],
      [bbox |-> <<9, 40, 20, 42>>, text |-> <<"x">>,
       font_name |-> "Courier", font_size |-> 800, color_rgb |-> 255,
       is_bold |-> FALSE, is_italic |-> FALSE],
      [bbox |-> <<60, 60, 70, 62>>, text |-> <<"a", "b">>,
       font_name |-> "Times", font_size |-> 1200, color_rgb |-> 0,
       is_bold |-> FALSE, is_italic |-> FALSE] }

\* layout-model output: blocks of the page
LayoutPool ==
    { [type |-> "text", bbox |-> <<10, 10, 50, 30>>, content |-> <<>>],
      [type |-> "title", bbox |-> <<10, 20, 50, 50>>,
       content |-> <<"a", "b", " ", "e", "f">>],
      [type |-> "text", bbox |-> <<10, 10, 50, 50>>,
       content |-> <<"c", "d", " ", "x", "y">>],
      [type |-> "image", bbox |-> <<10, 10, 50, 50>>, content |-> <<>>],
      [type |-> "text", bbox |-> <<>>, content |-> <<"a", "b">>] }

\* _extract_pymupdf_spans_detailed: ids 0, 1, ... in extraction order
SpanInputs ==
    {[i \in 1..Len(sh) |-> [id |-> i - 1] @@ sh[i]] :
        sh \in SeqsOf(SpanShapes, 1, MaxSpans)}

PageInputs == SeqsOf(LayoutPool, 0, MaxBlocks)

\* the extracted span with the given id
SpanOf(id) == pymupdf_spans[id + 1]

-----------------------------------------------------------------------------
(* Span-block matching                                                     *)

bbox_tolerance == 2

y_tolerance == 1

spans_overlap(span_bbox, block_bbox) ==
    /\ span_bbox[1] >= block_bbox[1] - bbox_tolerance
    /\ span_bbox[2] >= block_bbox[2] - bbox_tolerance
    /\ span_bbox[3] <= block_bbox[3] + bbox_tolerance
    /\ span_bbox[4] <= block_bbox[4] + bbox_tolerance

\* the score is the rational <<numerator, denominator>>
evaluate_text_match(span_text, block_content) ==
    LET st == Lower(Strip(span_text))
        span_words == {w \in WordSet(st) : Len(w) >= 2}
        block_words == {w \in WordSet(block_content) : Len(w) >= 2}
    IN IF Strip(block_content) = <<>> THEN <<1, 1>>
       ELSE IF IsSubstr(st, block_content) THEN <<1, 1>>
       ELSE IF span_words # {} /\ block_words # {}
            THEN <<Cardinality(span_words \cap block_words), Cardinality(span_words)>>
            ELSE <<0, 1>>

get_match_quality_label(q) ==
    IF 10 * q[1] >= 9 * q[2] THEN "excellent"
    ELSE IF 10 * q[1] >= 7 * q[2] THEN "good"
    ELSE IF 10 * q[1] >= 4 * q[2] THEN "fair"
    ELSE "poor"

\* the text score of a span for a block (lines 364-367)
TextScore(span, block) ==
    IF Strip(Lower(block.content)) = <<>> THEN <<1, 1>>
    ELSE evaluate_text_match(span.text, Lower(block.content))

\* Candidates without the test of line 360 (a span already matched is
\* offered again)
CandidatesNoSkip(block, h) ==
    SelectIdx(pymupdf_spans,
              {i \in DOMAIN pymupdf_spans :
                  /\ spans_overlap(pymupdf_spans[i].bbox, block.bbox)
                  /\ TextScore(pymupdf_spans[i], block)[1] > 0})

\* step 1 of _find_matching_spans_for_block: the unmatched spans, in
\* extraction order, that lie in the block and have a positive text score
Candidates(block, h) ==
    SelectIdx(pymupdf_spans,
              {i \in DOMAIN pymupdf_spans :
                  /\ h[i].matched_to_block = None
                  /\ spans_overlap(pymupdf_spans[i].bbox, block.bbox)
                  /\ TextScore(pymupdf_spans[i], block)[1] > 0})

\* the key of the line a span joins: the first existing key (insertion
\* order) within y_tolerance of its top, else its own top
RECURSIVE LineKeys(_, _, _)
LineKeys(cands, keys, acc) ==
    IF cands = <<>> THEN acc
    ELSE LET y == Head(cands).bbox[2]
             near == {i \in DOMAIN keys : AbsDiff(y, keys[i]) <= y_tolerance}
             key == IF near = {} THEN y ELSE keys[SetMin(near)]
         IN LineKeys(Tail(cands),
                     IF near = {} THEN Append(keys, y) ELSE keys,
                     Append(acc, key))

\* a line left in the order of its candidates
SortByXAsFound(s) == s

\* sorted(line, key=x0): a stable insertion sort
RECURSIVE SortByX(_)
SortByX(s) ==
    IF s = <<>> THEN <<>>
    ELSE LET init == SortByX(SubSeq(s, 1, Len(s) - 1))
             e == s[Len(s)]
             p == Cardinality({i \in DOMAIN init : init[i].bbox[1] <= e.bbox[1]})
         IN SubSeq(init, 1, p) \o <<e>> \o SubSeq(init, p + 1, Len(init))

\* the lines in ascending key order, each sorted by x
RECURSIVE ConcatLines(_, _, _)
ConcatLines(cands, lk, keys) ==
    IF keys = {} THEN <<>>
    ELSE LET y == SetMin(keys)
         IN SortByX(SelectIdx(cands, {i \in DOMAIN cands : lk[i] = y}))
            \o ConcatLines(cands, lk, keys \ {y})

find_matching_spans_for_block(block, h) ==
    LET cands == Candidates(block, h)
        lk == LineKeys(cands, <<>>, <<>>)
    IN IF cands = <<>> THEN <<>> ELSE ConcatLines(cands, lk, Range(lk))

\* the blocks kept by the enrichment: text and title blocks with a bbox
standardized_unsorted(pd) ==
    SelectIdx(pd, {i \in DOMAIN pd :
                      pd[i].type \in {"title", "text"} /\ Len(pd[i].bbox) = 4})

\* list.sort(key=(bbox[1], bbox[0])): stable
RECURSIVE SortBlocks(_)
SortBlocks(s) ==
    IF s = <<>> THEN <<>>
    ELSE LET init == SortBlocks(SubSeq(s, 1, Len(s) - 1))
             e == s[Len(s)]
             p == Cardinality({i \in DOMAIN init :
                    \/ init[i].bbox[2] < e.bbox[2]
                    \/ init[i].bbox[2] = e.bbox[2] /\ init[i].bbox[1] <= e.bbox[1]})
         IN SubSeq(init, 1, p) \o <<e>> \o SubSeq(init, p + 1, Len(init))

\* the blocks kept, left in the order of the page
standardized_blocks_as_given(pd) == standardized_unsorted(pd)

\* lines 293-311
standardized_blocks(pd) == SortBlocks(standardized_unsorted(pd))

\* the reference of the span object created by the extraction for a span
RefOf(span) == span.id + 1

determine_block_type(mineru_block) ==
    IF mineru_block.type = "title" THEN "title" ELSE "paragraph"

\* the key of style_freq (lines 534, 545)
StyleKey5(span) ==
    <<span.font_name, span.font_size, span.color_rgb, span.is_bold, span.is_italic>>

\* style_freq[key]: the characters of the spans with the key (lines 532-535)
StyleFreq(matching_spans, key) ==
    SumLen(SelectIdx(matching_spans,
                     {i \in DOMAIN matching_spans : StyleKey5(matching_spans[i]) = key}))

\* the style triple of a span (lines 462-466, 602)
SpanStyle(span) ==
    [police |-> span.font_name, taille |-> span.font_size, couleur |-> span.color_rgb]

\* line 468
UnknownStyle == [police |-> "Unknown", taille |-> 1200, couleur |-> 0]

\* lines 459-468: the style of the first span when it names a font
FirstSpanStyle(matching_spans) ==
    IF matching_spans # <<>> /\ matching_spans[1].font_name # ""
    THEN SpanStyle(matching_spans[1])
    ELSE UnknownStyle

\* update_empty_block_style_from_first_span applied to the default style
\* of a block that holds matching_spans: Unknown gives way to the first
\* span that names a font, or to the first span
update_empty_block_style_from_first_span(default_style, matching_spans) ==
    IF matching_spans # <<>> /\ default_style.police = "Unknown"
    THEN LET named == {i \in DOMAIN matching_spans :
                          matching_spans[i].font_name \notin {"", "Unknown"}}
         IN SpanStyle(matching_spans[IF named = {} THEN 1 ELSE SetMin(named)])
    ELSE default_style

\* ' '.join(parts)
RECURSIVE JoinWithSpace(_)
JoinWithSpace(parts) ==
    IF parts = <<>> THEN <<>>
    ELSE IF Len(parts) = 1 THEN parts[1]
    ELSE parts[1] \o <<" ">> \o JoinWithSpace(Tail(parts))

\* re.sub(r'\s+', ' ', text)
WhitespaceToSpace(t) ==
    CollapseSpaces([i \in DOMAIN t |-> IF IsSpace(t[i]) THEN " " ELSE t[i]])

\* line 537: max(style_freq, key=style_freq.get), the first key inserted
\* among those with the most characters
dominant_style_key(span_styles) ==
    LET freq == [i \in DOMAIN span_styles |-> StyleFreq(span_styles, StyleKey5(span_styles[i]))]
    IN StyleKey5(span_styles[SetMin({i \in DOMAIN span_styles :
                                        \A j \in DOMAIN span_styles : freq[j] <= freq[i]})])

\* lines 546-556: the part of a span, f"{style_tag}{span['text']}{style_tag}"
\* when its key is not the dominant one
TaggedPart(span, dominant, tag) ==
    IF StyleKey5(span) = dominant THEN span.text
    ELSE tag \o span.text \o tag

\* lines 544-557: acc = [text, styles], styles[K] the style of tag sK
RECURSIVE StyledParts(_, _, _, _)
StyledParts(span_styles, i, dominant, acc) ==
    IF i > Len(span_styles) THEN acc
    ELSE StyledParts(span_styles, i + 1, dominant,
            [text |-> acc.text \o TaggedPart(span_styles[i], dominant,
                                             LocalTag(Len(acc.styles) + 1)),
             styles |-> IF StyleKey5(span_styles[i]) = dominant THEN acc.styles
                        ELSE Append(acc.styles, SpanStyle(span_styles[i]))])

\* _create_styled_content(content, matching_spans, page_num)
create_styled_content(content, matching_spans) ==
    LET span_styles == SelectIdx(matching_spans,
                                 {i \in DOMAIN matching_spans : matching_spans[i].text # <<>>})
    IN IF span_styles = <<>>
       THEN [styled_content |-> content, additional_styles |-> <<>>]
       ELSE LET parts == StyledParts(span_styles, 1, dominant_style_key(span_styles),
                                     [text |-> <<>>, styles |-> <<>>])
            IN [styled_content |-> WhitespaceToSpace(parts.text),
                additional_styles |-> parts.styles]

\* lines 1248-1272: the part of a span, tagged by the first tag of
\* additional_styles that has its style unless it has the default style
RebuiltPart(span, default_style, additional_styles) ==
    LET tags == {K \in DOMAIN additional_styles : additional_styles[K] = SpanStyle(span)}
    IN IF SpanStyle(span) = default_style \/ tags = {} THEN span.text
       ELSE OpenMarker(LocalTag(SetMin(tags))) \o span.text
               \o CloseMarker(LocalTag(SetMin(tags)))

RECURSIVE RebuiltParts(_, _, _)
RebuiltParts(span_styles, default_style, additional_styles) ==
    IF span_styles = <<>> THEN <<>>
    ELSE RebuiltPart(Head(span_styles), default_style, additional_styles)
            \o RebuiltParts(Tail(span_styles), default_style, additional_styles)

\* _rebuild_styled_content_from_spans(matching_spans, default_style,
\* additional_styles)
rebuild_styled_content_from_spans(matching_spans, default_style, additional_styles) ==
    LET span_styles == SelectIdx(matching_spans,
                                 {i \in DOMAIN matching_spans : matching_spans[i].text # <<>>})
    IN Replace(Replace(WhitespaceToSpace(RebuiltParts(span_styles, default_style,
                                                      additional_styles)),
                       <<" ", "<", "/">>, <<"<", "/">>),
               <<">", " ", "<">>, <<">", "<">>)

\* _create_enriched_block followed by update_empty_block_style_from_first_span
\* (lines 326-329)
create_enriched_block(mineru_block, matching_spans, bloc_num) ==
    [oid |-> 0,
     id |-> BlocId(bloc_num),
     block_type |-> determine_block_type(mineru_block),
     matching_spans |-> [i \in DOMAIN matching_spans |-> RefOf(matching_spans[i])],
     default_style |-> update_empty_block_style_from_first_span(
                          FirstSpanStyle(matching_spans), matching_spans),
     styled_content |-> create_styled_content(mineru_block.content,
                                              matching_spans).styled_content,
     additional_styles |-> create_styled_content(mineru_block.content,
                                                 matching_spans).additional_styles,
     include_in_output |-> "absent",
     is_consumed |-> "absent",
     match_source |-> "absent",
     merge_group_id |-> 0,
     merge_order |-> -1]

create_isolated_span_block(span) ==
    [oid |-> 0,
     id |-> IsoId(span.id),
     block_type |-> "isolated_span",
     matching_spans |-> <<RefOf(span)>>,
     default_style |-> SpanStyle(span),
     styled_content |-> span.text,
     additional_styles |-> <<>>,
     include_in_output |-> "yes",
     is_consumed |-> "absent",
     match_source |-> "absent",
     merge_group_id |-> 0,
     merge_order |-> -1]

\* the loop over the sorted blocks (lines 320-335); st = [heap, blocks]
RECURSIVE EnrichLoop(_, _, _)
EnrichLoop(blocks, block_idx, st) ==
    IF block_idx >= Len(blocks) THEN st
    ELSE LET block == blocks[block_idx + 1]
             ms == find_matching_spans_for_block(block, st.heap)
             refs == {RefOf(ms[i]) : i \in DOMAIN ms}
             h2 == [r \in DOMAIN st.heap |->
                      IF r \in refs
                      THEN [st.heap[r] EXCEPT
                              !.matched_to_block = IdxVal(block_idx),
                              !.match_quality =
                                  get_match_quality_label(TextScore(SpanOf(st.heap[r].id), block))]
                      ELSE st.heap[r]]
         IN EnrichLoop(blocks, block_idx + 1,
                       [heap |-> h2,
                        blocks |-> Append(st.blocks,
                                          create_enriched_block(block, ms, block_idx))])

\* IsolatedSpans with a truthiness test (not s['matched_to_block']) in
\* place of the test for None: the index 0 counts as unmatched
IsolatedSpansFalsy(h) ==
    SelectIdx(pymupdf_spans,
              {i \in DOMAIN pymupdf_spans :
                  h[i].matched_to_block \in {None, IdxVal(0)}})

\* line 338: the spans no layout block has claimed, in extraction order
IsolatedSpans(h) ==
    SelectIdx(pymupdf_spans,
              {i \in DOMAIN pymupdf_spans : h[i].matched_to_block = None})

\* _enrich_page_blocks: the heap and the enriched blocks of the page
enrich_page_blocks(pd, h) ==
    LET st == EnrichLoop(standardized_blocks(pd), 0, [heap |-> h, blocks |-> <<>>])
        isolated == IsolatedSpans(st.heap)
        all == st.blocks \o
               [i \in DOMAIN isolated |-> create_isolated_span_block(isolated[i])]
    IN [heap |-> st.heap,
        blocks |-> [i \in DOMAIN all |-> [all[i] EXCEPT !.oid = i]]]

-----------------------------------------------------------------------------
(* Enrichment of a page as a state machine                                 *)

\* the span objects as the extraction leaves them (lines 255-270)
ExtractedHeap(spans) ==
    [i \in DOMAIN spans |->
        [id |-> spans[i].id, matched_to_block |-> None, match_quality |-> "unmatched"]]

\* no session saved yet: session_data.get('global_styles', {...}) default
NoSession == [styles |-> <<>>, block_style_refs |-> <<>>, origin |-> "memory"]

\* no generator built, nothing exported
NoGenerator ==
    /\ global_styles = <<>>
    /\ style_mapping = <<>>
    /\ block_additional_style_refs = <<>>
    /\ session_data = NoSession
    /\ export_blocks = <<>>
    /\ calls = <<>>
    /\ exports = <<>>

\* no overlay being built
\* no single block at hand
NoBlock ==
    /\ block_for_reflow = <<>>
    /\ parsed_segments = <<>>
    /\ ladder_lines = <<>>
    /\ fitted = <<>>

NoRewrite ==
    /\ styled_text = <<>>
    /\ block_mapping = <<>>
    /\ rewrites = <<>>
    /\ translation_data = <<>>

\* no editor history at hand
NoHistory ==
    /\ history = <<>>
    /\ history_index = -1
    /\ editor_data = 0
    /\ last_call = <<>>
    /\ reverts = 0

NoOverlay ==
    /\ translated_text = <<>>
    /\ group_blocks_sorted = <<>>
    /\ merged_groups_redistribution = <<>>
    /\ merged_groups_compression = <<>>
    /\ rendered_lines = <<>>
    /\ NoBlock
    /\ NoRewrite
    /\ NoHistory

InitEnrich ==
    /\ pc = "extracted"
    /\ NoGenerator
    /\ NoOverlay
    /\ pymupdf_spans \in SpanInputs
    /\ page_data \in PageInputs
    /\ heap = ExtractedHeap(pymupdf_spans)
    /\ enriched_data = <<>>
    /\ nops = 0

\* _process_with_visual_matching, one page: enriched_page = _enrich_page_blocks(...)
Enrich ==
    /\ pc = "extracted"
    /\ LET r == enrich_page_blocks(page_data, heap)
       IN /\ heap' = r.heap
          /\ enriched_data' = r.blocks
    /\ pc' = "enriched"
    /\ UNCHANGED <<pymupdf_spans, page_data, nops, styleVars, overlayVars>>

NextEnrich == Enrich

SpecEnrich == InitEnrich /\ [][NextEnrich]_vars

(* The spans of one layout block whose tops are a pixel apart: the lines   *)
(* of _find_matching_spans_for_block (lines 377-398).                      *)

MaxLineSpans == 3

\* spans of the block at three tops and two lefts, and one outside of it
LineSpanShapes ==
    {[bbox |-> <<x, y, x + 8, y + 2>>, text |-> <<"a", "b">>,
      font_name |-> "Arial", font_size |-> 1000, color_rgb |-> 0,
      is_bold |-> FALSE, is_italic |-> FALSE] : x \in {12, 15}, y \in {12, 13, 14}}
    \cup {[bbox |-> <<60, 60, 70, 62>>, text |-> <<"a", "b">>,
           font_name |-> "Arial", font_size |-> 1000, color_rgb |-> 0,
           is_bold |-> FALSE, is_italic |-> FALSE]}

LineSpanInputs ==
    {[i \in 1..Len(sh) |-> [id |-> i - 1] @@ sh[i]] :
        sh \in SeqsOf(LineSpanShapes, 1, MaxLineSpans)}

InitLines ==
    /\ pc = "extracted"
    /\ NoGenerator
    /\ NoOverlay
    /\ pymupdf_spans \in LineSpanInputs
    /\ page_data = <<[type |-> "text", bbox |-> <<10, 10, 50, 30>>, content |-> <<>>]>>
    /\ heap = ExtractedHeap(pymupdf_spans)
    /\ enriched_data = <<>>
    /\ nops = 0

NextLines == Enrich

SpecLines == InitLines /\ [][NextLines]_vars

\* the span ids held by a block
SpanIds(block) == {heap[block.matching_spans[i]].id : i \in DOMAIN block.matching_spans}

\* a span qualifies for a layout block: inside its bbox and a positive score
Qualifies(span, block) ==
    /\ spans_overlap(span.bbox, block.bbox)
    /\ TextScore(span, block)[1] > 0

-----------------------------------------------------------------------------
(* Manual corrections (DataManager and the editor window).  A block is a   *)
(* Python dict: oid is its object identity, equality (list.remove) is by   *)
(* value.  The selection of the editor is the parameter of each action.    *)

\* the value of a block as dict equality sees it
BlockValue(b, h) ==
    [b EXCEPT !.oid = 0,
              !.matching_spans = [i \in DOMAIN b.matching_spans |-> h[b.matching_spans[i]]]]

RemoveAt(s, i) == SubSeq(s, 1, i - 1) \o SubSeq(s, i + 1, Len(s))

\* list.remove(x): drops the first element equal to x
RemoveBlockByValue(blocks, b, h) ==
    LET eq == {j \in DOMAIN blocks : BlockValue(blocks[j], h) = BlockValue(b, h)}
    IN IF eq = {} THEN blocks ELSE RemoveAt(blocks, SetMin(eq))

HasOid(blocks, o) == \E i \in DOMAIN blocks : blocks[i].oid = o

IdxOfOid(blocks, o) == CHOOSE i \in DOMAIN blocks : blocks[i].oid = o

NewOid(blocks) == IF blocks = <<>> THEN 1 ELSE SetMax({blocks[i].oid : i \in DOMAIN blocks}) + 1

\* the positions of the spans of a block that carry the span id
PosOfId(b, h, id) == {k \in DOMAIN b.matching_spans : h[b.matching_spans[k]].id = id}

\* sequences of distinct elements of S of length lo..hi
DistinctSeqs(S, lo, hi) ==
    {q \in SeqsOf(S, lo, hi) : \A i, j \in DOMAIN q : i # j => q[i] # q[j]}

\* DataManager.link_spans_to_block(block, spans): the block gets copies
link_spans_to_block(b, spans) ==
    /\ pc = "enriched"
    /\ nops < MaxOps
    /\ Len(heap) + Len(spans) <= MaxHeap
    /\ LET base == Len(heap)
           copies == [i \in DOMAIN spans |->
                        [heap[spans[i]] EXCEPT !.matched_to_block = enriched_data[b].id]]
       IN /\ heap' = heap \o copies
          /\ enriched_data' =
                [enriched_data EXCEPT
                    ![b].matching_spans = [i \in DOMAIN spans |-> base + i],
                    ![b].match_source = "manual"]
    /\ nops' = nops + 1
    /\ UNCHANGED <<pc, pymupdf_spans, page_data, styleVars, overlayVars>>

\* DataManager.unlink_block(block)
unlink_block(b) ==
    /\ pc = "enriched"
    /\ nops < MaxOps
    /\ heap' = [r \in DOMAIN heap |->
                  IF r \in Range(enriched_data[b].matching_spans)
                  THEN [heap[r] EXCEPT !.matched_to_block = None]
                  ELSE heap[r]]
    /\ enriched_data' = [enriched_data EXCEPT ![b].matching_spans = <<>>,
                                               ![b].match_source = "unmatched"]
    /\ nops' = nops + 1
    /\ UNCHANGED <<pc, pymupdf_spans, page_data, styleVars, overlayVars>>

\* populate_available_spans: the first span of every isolated_span block,
\* except the spans of the current block when it is a layout block
AvailableSpans(cur) ==
    LET exclude == IF enriched_data[cur].block_type # "isolated_span"
                   THEN SpanIds(enriched_data[cur]) ELSE {}
    IN {enriched_data[i].matching_spans[1] :
          i \in {j \in DOMAIN enriched_data :
                   /\ enriched_data[j].block_type = "isolated_span"
                   /\ enriched_data[j].matching_spans # <<>>
                   /\ heap[enriched_data[j].matching_spans[1]].id \notin exclude}}

\* add_spans_to_block, lines 1281-1291 for one item: the loop over the
\* snapshot page_blocks[:]; st = [heap, blocks, added]
RECURSIVE AddItemLoop(_, _, _, _)
AddItemLoop(snapshot, itemId, curOid, st) ==
    IF snapshot = <<>> THEN st
    ELSE
      LET o == Head(snapshot)
          hit == /\ HasOid(st.blocks, o)
                 /\ st.blocks[IdxOfOid(st.blocks, o)].block_type = "isolated_span"
                 /\ PosOfId(st.blocks[IdxOfOid(st.blocks, o)], st.heap, itemId) # {}
      IN IF ~hit THEN AddItemLoop(Tail(snapshot), itemId, curOid, st)
         ELSE
           LET i == IdxOfOid(st.blocks, o)
               b == st.blocks[i]
               r == b.matching_spans[SetMin(PosOfId(b, st.heap, itemId))]
               \* matching_spans.remove(s): the first span equal to s by value
               k == SetMin({j \in DOMAIN b.matching_spans :
                               st.heap[b.matching_spans[j]] = st.heap[r]})
               b1 == [b EXCEPT !.matching_spans = RemoveAt(b.matching_spans, k)]
               blocks1 == [st.blocks EXCEPT ![i] = b1]
               blocks2 == IF b1.matching_spans = <<>>
                          THEN RemoveBlockByValue(blocks1, b1, st.heap)
                          ELSE blocks1
               c == IdxOfOid(blocks2, curOid)
               heap1 == [st.heap EXCEPT ![r].matched_to_block = blocks2[c].id]
               blocks3 == [blocks2 EXCEPT
                             ![c].matching_spans = Append(blocks2[c].matching_spans, r)]
           IN AddItemLoop(Tail(snapshot), itemId, curOid,
                          [heap |-> heap1, blocks |-> blocks3, added |-> st.added + 1])

\* the loop over the selected items (line 1271)
RECURSIVE AddItems(_, _, _)
AddItems(items, curOid, st) ==
    IF items = <<>> THEN st
    ELSE AddItems(Tail(items), curOid,
                  AddItemLoop([i \in DOMAIN st.blocks |-> st.blocks[i].oid],
                              st.heap[Head(items)].id, curOid, st))

\* a block that adopts the style of the first item whenever spans are added
AdoptedStyleAlways(default_style, spans_added, was_empty_before, first_span_style) ==
    IF spans_added > 0 THEN first_span_style ELSE default_style

\* lines 1293-1295: an empty block that received spans adopts the style of
\* the first selected item
AdoptedStyle(default_style, spans_added, was_empty_before, first_span_style) ==
    IF spans_added > 0 /\ was_empty_before THEN first_span_style ELSE default_style

\* add_spans_to_block: current block cur, selected available spans items
add_spans_to_block(cur, items) ==
    /\ pc = "enriched"
    /\ nops < MaxOps
    /\ enriched_data[cur].block_type # "isolated_span"
    /\ items # <<>>
    /\ LET curOid == enriched_data[cur].oid
           was_empty_before == enriched_data[cur].matching_spans = <<>>
           first_span_style == SpanStyle(SpanOf(heap[items[1]].id))
           st == AddItems(items, curOid,
                          [heap |-> heap, blocks |-> enriched_data, added |-> 0])
           c == IdxOfOid(st.blocks, curOid)
       IN /\ heap' = st.heap
          /\ enriched_data' =
                [st.blocks EXCEPT
                    ![c].match_source = "manual",
                    ![c].default_style = AdoptedStyle(@, st.added, was_empty_before,
                                                      first_span_style)]
    /\ nops' = nops + 1
    /\ UNCHANGED <<pc, pymupdf_spans, page_data, styleVars, overlayVars>>

\* remove_span, lines 1170-1222: the loop over the spans to remove
RECURSIVE RemoveLoop(_, _, _)
RemoveLoop(refs, curOid, st) ==
    IF refs = <<>> THEN st
    ELSE
      LET r == Head(refs)
          rid == st.heap[r].id
          c == IdxOfOid(st.blocks, curOid)
          kept == SelectIdx(st.blocks[c].matching_spans,
                            {k \in DOMAIN st.blocks[c].matching_spans :
                                st.heap[st.blocks[c].matching_spans[k]].id # rid})
          blocks1 == [st.blocks EXCEPT ![c].matching_spans = kept]
          heap1 == [st.heap EXCEPT ![r].matched_to_block = None]
          holders == {i \in DOMAIN blocks1 :
                        /\ blocks1[i].block_type = "isolated_span"
                        /\ PosOfId(blocks1[i], heap1, rid) # {}}
          blocks2 == IF holders # {}
                     THEN [i \in DOMAIN blocks1 |->
                             IF i \in holders
                             THEN [blocks1[i] EXCEPT !.is_consumed = "no",
                                                     !.include_in_output = "yes"]
                             ELSE blocks1[i]]
                     ELSE Append(blocks1,
                                 [oid |-> NewOid(blocks1),
                                  id |-> IsoId(rid),
                                  block_type |-> "isolated_span",
                                  matching_spans |-> <<r>>,
                                  default_style |-> SpanStyle(SpanOf(rid)),
                                  styled_content |-> SpanOf(rid).text,
                                  additional_styles |-> <<>>,
                                  include_in_output |-> "yes",
                                  is_consumed |-> "no",
                                  match_source |-> "absent",
                                  merge_group_id |-> 0,
                                  merge_order |-> -1])
      IN RemoveLoop(Tail(refs), curOid, [heap |-> heap1, blocks |-> blocks2])

\* the rows of a set in descending order (line 1155)
RECURSIVE RowsDesc(_)
RowsDesc(rows) ==
    IF rows = {} THEN <<>> ELSE <<SetMax(rows)>> \o RowsDesc(rows \ {SetMax(rows)})

\* remove_span: current block cur, selected rows of its span table
remove_span(cur, rows) ==
    /\ pc = "enriched"
    /\ nops < MaxOps
    /\ rows # {}
    /\ rows \subseteq DOMAIN enriched_data[cur].matching_spans
    /\ LET curOid == enriched_data[cur].oid
           desc == RowsDesc(rows)
           refs == [i \in DOMAIN desc |-> enriched_data[cur].matching_spans[desc[i]]]
           st == RemoveLoop(refs, curOid, [heap |-> heap, blocks |-> enriched_data])
           c == IdxOfOid(st.blocks, curOid)
       IN /\ heap' = st.heap
          /\ enriched_data' = [st.blocks EXCEPT ![c].match_source = "manual"]
    /\ nops' = nops + 1
    /\ UNCHANGED <<pc, pymupdf_spans, page_data, styleVars, overlayVars>>

\* the smallest n whose custom id is not taken (lines 1448-1452)
RECURSIVE NewCustomNum(_, _)
NewCustomNum(ids, n) == IF CustomId(n) \in ids THEN NewCustomNum(ids, n + 1) ELSE n

RECURSIVE ConcatSpans(_, _)
ConcatSpans(blocks, sel) ==
    IF sel = <<>> THEN <<>>
    ELSE blocks[Head(sel)].matching_spans \o ConcatSpans(blocks, Tail(sel))

\* lines 1413-1428: the isolated blocks the selection designates.  items are
\* rows of the available spans list (given by the block each row was built
\* from), rows the blocks selected in the block list.
SelectedIsolatedBlocks(items, rows) ==
    IF items # <<>>
    THEN [k \in DOMAIN items |->
            SetMin({j \in DOMAIN enriched_data :
                      /\ enriched_data[j].block_type = "isolated_span"
                      /\ enriched_data[j].matching_spans # <<>>
                      /\ heap[enriched_data[j].matching_spans[1]].id =
                         heap[enriched_data[items[k]].matching_spans[1]].id})]
    ELSE SelectIdx(rows, {k \in DOMAIN rows :
                            enriched_data[rows[k]].block_type = "isolated_span"})

\* create_block_from_selection
create_block_from_selection(items, rows) ==
    /\ pc = "enriched"
    /\ nops < MaxOps
    /\ LET sel == SelectedIsolatedBlocks(items, rows)
           all_spans == ConcatSpans(enriched_data, sel)
           new_block_id ==
               CustomId(NewCustomNum({enriched_data[i].id : i \in DOMAIN enriched_data}, 0))
           marked == {SetMin({j \in DOMAIN enriched_data :
                                enriched_data[j].id = enriched_data[sel[k]].id}) :
                        k \in DOMAIN sel}
           new_block == [oid |-> NewOid(enriched_data),
                         id |-> new_block_id,
                         block_type |-> "text",
                         matching_spans |-> all_spans,
                         default_style |-> SpanStyle(SpanOf(heap[all_spans[1]].id)),
                         styled_content |->
                             JoinWithSpace([k \in DOMAIN all_spans |->
                                               SpanOf(heap[all_spans[k]].id).text]),
                         additional_styles |-> <<>>,
                         include_in_output |-> "yes",
                         is_consumed |-> "absent",
                         match_source |-> "manual",
                         merge_group_id |-> 0,
                         merge_order |-> -1]
       IN /\ Len(sel) >= 1
          /\ all_spans # <<>>
          /\ heap' = [r \in DOMAIN heap |->
                        IF r \in Range(all_spans)
                        THEN [heap[r] EXCEPT !.matched_to_block = new_block_id]
                        ELSE heap[r]]
          /\ enriched_data' =
                Append([j \in DOMAIN enriched_data |->
                          IF j \in marked
                          THEN [enriched_data[j] EXCEPT !.is_consumed = "yes",
                                                        !.include_in_output = "no"]
                          ELSE enriched_data[j]],
                       new_block)
    /\ nops' = nops + 1
    /\ UNCHANGED <<pc, pymupdf_spans, page_data, styleVars, overlayVars>>

\* delete_custom_block, lines 657-664 for one span id: the loop over the
\* page blocks; st = [heap, blocks]
RECURSIVE RestoreLoop(_, _, _)
RestoreLoop(j, span_id, st) ==
    IF j > Len(st.blocks) THEN st
    ELSE
      LET b == st.blocks[j]
          pos == PosOfId(b, st.heap, span_id)
      IN IF b.block_type = "isolated_span" /\ pos # {}
         THEN RestoreLoop(j + 1, span_id,
                 [heap |-> [st.heap EXCEPT
                              ![b.matching_spans[SetMin(pos)]].matched_to_block = b.id],
                  blocks |-> [st.blocks EXCEPT ![j].is_consumed = "no",
                                               ![j].include_in_output = "yes"]])
         ELSE RestoreLoop(j + 1, span_id, st)

\* the loop over the spans of the removed block (line 653)
RECURSIVE RestoreSpans(_, _)
RestoreSpans(refs, st) ==
    IF refs = <<>> THEN st
    ELSE RestoreSpans(Tail(refs), RestoreLoop(1, st.heap[Head(refs)].id, st))

\* delete_custom_block: sel is the one selected block
delete_custom_block(sel) ==
    /\ pc = "enriched"
    /\ nops < MaxOps
    /\ enriched_data[sel].match_source = "manual"
    /\ LET t == SetMin({j \in DOMAIN enriched_data :
                          enriched_data[j].id = enriched_data[sel].id})
           st == RestoreSpans(enriched_data[t].matching_spans,
                              [heap |-> heap, blocks |-> enriched_data])
       IN /\ heap' = st.heap
          /\ enriched_data' = RemoveBlockByValue(st.blocks, st.blocks[t], st.heap)
    /\ nops' = nops + 1
    /\ UNCHANGED <<pc, pymupdf_spans, page_data, styleVars, overlayVars>>

\* the documents of the correction runs: spans inside and outside one
\* layout block
CorrSpanInputs ==
    {q \in SpanInputs : \A i \in DOMAIN q :
        q[i].bbox \in {<<12, 12, 20, 14>>, <<9, 40, 20, 42>>, <<60, 60, 70, 62>>}}

CorrPageInputs ==
    {pd \in PageInputs : Len(pd) <= 1 /\ \A i \in DOMAIN pd : pd[i].bbox = <<10, 10, 50, 30>>}

InitCorr ==
    /\ InitEnrich
    /\ pymupdf_spans \in CorrSpanInputs
    /\ page_data \in CorrPageInputs

MaxSel == 2

NextCorr ==
    \/ Enrich
    \/ \E b \in DOMAIN enriched_data :
         \E spans \in DistinctSeqs(DOMAIN heap, 1, MaxSel) : link_spans_to_block(b, spans)
    \/ \E b \in DOMAIN enriched_data : unlink_block(b)
    \/ \E cur \in DOMAIN enriched_data :
         \E items \in DistinctSeqs(AvailableSpans(cur), 1, MaxSel) :
            add_spans_to_block(cur, items)
    \/ \E cur \in DOMAIN enriched_data :
         \E rows \in SUBSET (DOMAIN enriched_data[cur].matching_spans) : remove_span(cur, rows)
    \/ \E items \in DistinctSeqs({j \in DOMAIN enriched_data :
                                    /\ enriched_data[j].block_type = "isolated_span"
                                    /\ enriched_data[j].matching_spans # <<>>}, 0, MaxSel) :
         \E rows \in DistinctSeqs(DOMAIN enriched_data, 0, MaxSel) :
            /\ items # <<>> => rows = <<>>
            /\ create_block_from_selection(items, rows)
    \/ \E sel \in DOMAIN enriched_data : delete_custom_block(sel)

SpecCorr == InitCorr /\ [][NextCorr]_vars

\* the blocks of the page whose matching_spans hold the span id
BlocksHolding(id) == {i \in DOMAIN enriched_data : PosOfId(enriched_data[i], heap, id) # {}}

-----------------------------------------------------------------------------
(* Merge groups (DataManager.merge_blocks / unmerge_blocks).               *)

MaxGroupId == 2

MaxMergeIds == 3

\* an id no block of the page has
UnknownId == [k |-> "unknown", n |-> 0]

\* the ids a caller may pass: those of the page and an unknown one
IdPool == {enriched_data[i].id : i \in DOMAIN enriched_data} \cup {UnknownId}

\* block_ids.index(block_id)
IndexOf(block_ids, id) == SetMin({k \in DOMAIN block_ids : block_ids[k] = id}) - 1

\* DataManager.merge_blocks(block_ids); now is int(time.time() * 1000) % 1000000
merge_blocks(block_ids, now) ==
    /\ pc = "enriched"
    /\ nops < MaxOps
    /\ Len(block_ids) >= 2
    /\ enriched_data' =
          [i \in DOMAIN enriched_data |->
             IF enriched_data[i].id \in Range(block_ids)
             THEN [enriched_data[i] EXCEPT
                     !.merge_group_id = now,
                     !.merge_order = IndexOf(block_ids, enriched_data[i].id)]
             ELSE enriched_data[i]]
    /\ nops' = nops + 1
    /\ UNCHANGED <<pc, pymupdf_spans, page_data, heap, styleVars, overlayVars>>

\* DataManager.unmerge_blocks(block_ids)
unmerge_blocks(block_ids) ==
    /\ pc = "enriched"
    /\ nops < MaxOps
    /\ enriched_data' =
          [i \in DOMAIN enriched_data |->
             IF enriched_data[i].id \in block_ids
             THEN [enriched_data[i] EXCEPT !.merge_group_id = 0, !.merge_order = -1]
             ELSE enriched_data[i]]
    /\ nops' = nops + 1
    /\ UNCHANGED <<pc, pymupdf_spans, page_data, heap, styleVars, overlayVars>>

\* a page of two spans outside of the layout blocks
InitMerge ==
    /\ InitEnrich
    /\ pymupdf_spans \in CorrSpanInputs
    /\ Len(pymupdf_spans) = 2
    /\ page_data \in CorrPageInputs

NextMerge ==
    \/ Enrich
    \/ \E block_ids \in SeqsOf(IdPool, 2, MaxMergeIds) :
         \E now \in 1..MaxGroupId : merge_blocks(block_ids, now)
    \/ \E block_ids \in SUBSET IdPool : unmerge_blocks(block_ids)

SpecMerge == InitMerge /\ [][NextMerge]_vars

\* the blocks of the page in merge group g
GroupMembers(g) == {i \in DOMAIN enriched_data : enriched_data[i].merge_group_id = g}

-----------------------------------------------------------------------------
(* Global style registry (extract.py).  A size is a number of hundredths   *)
(* of a point, as the extraction rounds sizes to two decimals.  A double   *)
(* 0.2 * n is the pair of its hundredths h and of its excess e over them   *)
(* in units of 1e-15: 0.2 * 61 is 12.200000000000001, not 12.2.  The two   *)
(* tables below hold for sizes from 10 to 14 points.                       *)

SizeLo == 1207

SizeSpan == 6

MaxCalls == 3

\* 'taille': None
NoSize == -1

Sizes == SizeLo..(SizeLo + SizeSpan)

Fonts == {"Arial", "Times"}

Colors == {0, 255}

\* 'police': None
NoFont == "None"

\* the styles handed to the registry: complete ones, ones without a size
\* and one whose font is None
Styles ==
    [police : Fonts, taille : Sizes \cup {NoSize}, couleur : Colors]
    \cup {[police |-> NoFont, taille |-> SizeLo, couleur |-> 0]}

\* the sizes c halfway between two steps whose quotient (c / 100) / 0.2 is
\* the double just below the half; for the others it is the half exactly
QuotientBelowHalf == {1010, 1110, 1170, 1210, 1270, 1370}

\* round(size / 0.2): Python rounds an exact half to the even integer
round_steps(c) ==
    LET q == c \div 20
        r == c % 20
    IN IF r < 10 THEN q
       ELSE IF r > 10 THEN q + 1
       ELSE IF c \in QuotientBelowHalf THEN q
       ELSE IF q % 2 = 0 THEN q ELSE q + 1

\* the n whose product 0.2 * n is one unit above the decimal n / 5
InexactProducts == {51, 53, 56, 58, 61, 63, 66, 68}

\* 0.2 * n
Mul02(n) == [h |-> 20 * n, e |-> IF n \in InexactProducts THEN 1 ELSE 0]

\* the size without the rounding to steps of 0.2
size_unrounded(raw) == [h |-> IF raw = NoSize THEN 0 ELSE raw, e |-> 0]

\* lines 1444-1455: normalized_size = 0.2 * round(size / 0.2), size 0.0 if
\* float(raw_size) raises
normalized_size(raw) == IF raw = NoSize THEN Mul02(0) ELSE Mul02(round_steps(raw))

\* lines 1458-1462
style_signature(style) ==
    <<Field(style, "police", ""), normalized_size(style.taille), style.couleur>>

\* lines 1469-1470
next_number(gs) == IF DOMAIN gs = {} THEN 1 ELSE SetMax(DOMAIN gs) + 1

\* get_or_create_global_style(style_dict) on the registry (gs, sm): the
\* registry after the call and the key returned
get_or_create_global_style(gs, sm, style) ==
    LET sig == style_signature(style)
        key == next_number(gs)
    IN IF sig \in DOMAIN sm
       THEN [global_styles |-> gs, style_mapping |-> sm, key |-> sm[sig]]
       ELSE [global_styles |-> (key :> [police |-> Field(style, "police", ""),
                                        taille |-> sig[2],
                                        couleur |-> style.couleur]) @@ gs,
             style_mapping |-> (sig :> key) @@ sm,
             key |-> key]

\* no document loaded
NoDocument ==
    /\ pymupdf_spans = <<>>
    /\ page_data = <<>>
    /\ heap = <<>>
    /\ enriched_data = <<>>
    /\ nops = 0

\* a fresh generator: empty registry
InitStyle ==
    /\ pc = "registry"
    /\ NoDocument
    /\ NoGenerator
    /\ NoOverlay

\* one call of get_or_create_global_style; calls records the argument, the
\* key returned and the table after the call
GetOrCreate(style) ==
    /\ pc = "registry"
    /\ Len(calls) < MaxCalls
    /\ LET r == get_or_create_global_style(global_styles, style_mapping, style)
       IN /\ global_styles' = r.global_styles
          /\ style_mapping' = r.style_mapping
          /\ calls' = Append(calls, [style |-> style, key |-> r.key,
                                     table |-> r.global_styles])
    /\ UNCHANGED <<pc, enrichVars, overlayVars, block_additional_style_refs, session_data,
                   export_blocks, exports>>

NextStyle == \E style \in Styles : GetOrCreate(style)

SpecStyle == InitStyle /\ [][NextStyle]_vars

\* a size as the float it is, None kept as it is
raw_size(raw) == [h |-> raw, e |-> 0]

\* lines 1166-1173: the first entry, in insertion order, equal to the triple
MatchingTags(gs, style) ==
    {k \in DOMAIN gs : /\ gs[k].police = style.police
                       /\ gs[k].taille = raw_size(style.taille)
                       /\ gs[k].couleur = style.couleur}

\* DualOutputGenerator._get_or_create_global_style(style_info), the method:
\* the table after the call and the tag returned
get_or_create_global_style_method(gs, style) ==
    IF MatchingTags(gs, style) # {}
    THEN [global_styles |-> gs, key |-> SetMin(MatchingTags(gs, style))]
    ELSE [global_styles |-> (next_number(gs) :>
                               [police |-> style.police,
                                taille |-> raw_size(style.taille),
                                couleur |-> style.couleur]) @@ gs,
          key |-> next_number(gs)]

\* one call of the method
GetOrCreateMethod(style) ==
    /\ pc = "registry"
    /\ Len(calls) < MaxCalls
    /\ LET r == get_or_create_global_style_method(global_styles, style)
       IN /\ global_styles' = r.global_styles
          /\ calls' = Append(calls, [style |-> style, key |-> r.key,
                                     table |-> r.global_styles])
    /\ UNCHANGED <<pc, enrichVars, overlayVars, style_mapping, block_additional_style_refs,
                   session_data, export_blocks, exports>>

\* the styles given to the registry with its two functions
RegistryStyles == {style \in Styles : style.couleur = 0}

NextRegistry ==
    \/ \E style \in RegistryStyles : GetOrCreate(style)
    \/ \E style \in RegistryStyles : GetOrCreateMethod(style)

SpecRegistry == InitStyle /\ [][NextRegistry]_vars

-----------------------------------------------------------------------------
(* Export of the formatting file, and the session that persists the        *)
(* registry between exports (session_manager.py, extract.py).              *)

MaxFmtBlocks == 2

MaxExports == 3

\* default_style: {} (falsy)
EmptyStyle == [police |-> "", taille |-> NoSize, couleur |-> 0]

\* the styles of the exported blocks: both fonts, two sizes on two steps
ExportStyles ==
    {style \in Styles : style.couleur = 0 /\ style.taille \in {SizeLo + 2, SizeLo + 4}}

\* additional_styles of a block: a dict local key -> style, in insertion order
AdditionalPool ==
    {<<>>} \cup {<<[key |-> "style1", style |-> style]>> : style \in ExportStyles}

\* enriched data, one page: the fields of the blocks the first pass reads
ExportInputs ==
    {[i \in 1..Len(q) |-> [id |-> i, default_style |-> q[i][1],
                           additional_styles |-> q[i][2]]] :
        q \in SeqsOf((ExportStyles \cup {EmptyStyle}) \X AdditionalPool, 1, MaxFmtBlocks)}

\* the signature of a loaded entry (lines 47-51): the stored size as it is
loaded_signature(entry) == <<entry.police, entry.taille, entry.couleur>>

\* lines 45-52: later keys overwrite earlier ones with the same signature
RebuildMapping(gs) ==
    LET sigs == {loaded_signature(gs[k]) : k \in DOMAIN gs}
    IN [sig \in sigs |-> SetMax({k \in DOMAIN gs : loaded_signature(gs[k]) = sig})]

\* the constructor keeping the loaded table but leaving style_mapping empty
DualOutputGenerator_init_without_mapping(gsd) ==
    IF DOMAIN gsd.styles # {} \/ DOMAIN gsd.block_style_refs # {}
    THEN [global_styles |-> gsd.styles,
          block_additional_style_refs |-> gsd.block_style_refs,
          style_mapping |-> <<>>]
    ELSE [global_styles |-> <<>>, block_additional_style_refs |-> <<>>,
          style_mapping |-> <<>>]

\* DualOutputGenerator.__init__(global_styles_data = gsd)
DualOutputGenerator_init(gsd) ==
    IF DOMAIN gsd.styles # {} \/ DOMAIN gsd.block_style_refs # {}
    THEN [global_styles |-> gsd.styles,
          block_additional_style_refs |-> gsd.block_style_refs,
          style_mapping |-> RebuildMapping(gsd.styles)]
    ELSE [global_styles |-> <<>>, block_additional_style_refs |-> <<>>,
          style_mapping |-> <<>>]

\* lines 1502-1504: the additional styles of one block; st = [global_styles,
\* style_mapping, refs] with refs the local key -> N of the block
RECURSIVE CollectAdditional(_, _)
CollectAdditional(items, st) ==
    IF items = <<>> THEN st
    ELSE LET r == get_or_create_global_style(st.global_styles, st.style_mapping,
                                             Head(items).style)
         IN CollectAdditional(Tail(items),
               [global_styles |-> r.global_styles,
                style_mapping |-> r.style_mapping,
                refs |-> (Head(items).key :> r.key) @@ st.refs])

\* lines 1486-1504: the first pass; g = [global_styles, style_mapping,
\* block_additional_style_refs, block_default_style_refs]
RECURSIVE CollectStyles(_, _)
CollectStyles(blocks, g) ==
    IF blocks = <<>> THEN g
    ELSE
      LET block == Head(blocks)
          d == IF block.default_style # EmptyStyle
               THEN get_or_create_global_style(g.global_styles, g.style_mapping,
                                               block.default_style)
               ELSE [global_styles |-> g.global_styles,
                     style_mapping |-> g.style_mapping, key |-> 0]
          drefs == IF block.default_style # EmptyStyle
                   THEN (block.id :> d.key) @@ g.block_default_style_refs
                   ELSE g.block_default_style_refs
          old == IF block.id \in DOMAIN g.block_additional_style_refs
                 THEN g.block_additional_style_refs[block.id] ELSE <<>>
          a == CollectAdditional(block.additional_styles,
                                 [global_styles |-> d.global_styles,
                                  style_mapping |-> d.style_mapping,
                                  refs |-> old])
          arefs == IF block.additional_styles # <<>>
                   THEN (block.id :> a.refs) @@ g.block_additional_style_refs
                   ELSE g.block_additional_style_refs
      IN CollectStyles(Tail(blocks),
            [global_styles |-> a.global_styles,
             style_mapping |-> a.style_mapping,
             block_additional_style_refs |-> arefs,
             block_default_style_refs |-> drefs])

\* _generate_formatting_format(enriched_data) on the generator gen: the
\* generator after the first pass and the default_style_ref of the blocks
generate_formatting_format(gen, blocks) ==
    CollectStyles(blocks,
                  [global_styles |-> gen.global_styles,
                   style_mapping |-> gen.style_mapping,
                   block_additional_style_refs |-> gen.block_additional_style_refs,
                   block_default_style_refs |-> <<>>])

RECURSIVE DigitsValue(_)
DigitsValue(ds) ==
    IF ds = <<>> THEN 0
    ELSE 10 * DigitsValue(SubSeq(ds, 1, Len(ds) - 1)) + DigitOf(ds[Len(ds)])

\* json.dump of a float: float.__repr__, the shortest decimal that reads
\* back as the same double (a size here is a multiple of 0.1 plus e)
float_repr(f) ==
    Digits(f.h \div 100) \o <<".">> \o <<DigitChars[((f.h % 100) \div 10) + 1]>>
       \o (IF f.e = 0 THEN <<>> ELSE [i \in 1..13 |-> "0"] \o <<DigitChars[f.e + 1]>>)

\* json.load of a number with a fraction: float(text); digits 3 to 15 of
\* the fraction are the excess
float_parse(text) ==
    LET p == CHOOSE i \in DOMAIN text : text[i] = "."
        frac == SubSeq(text, p + 1, Len(text))
        two == IF Len(frac) = 1 THEN frac \o <<"0">> ELSE SubSeq(frac, 1, 2)
    IN [h |-> 100 * DigitsValue(SubSeq(text, 1, p - 1)) + DigitsValue(two),
        e |-> IF Len(frac) <= 2 THEN 0 ELSE DigitsValue(SubSeq(frac, 3, Len(frac)))]

\* save_session: json.dump of session_data['global_styles']
JsonDump(gsd) ==
    [styles |-> [k \in DOMAIN gsd.styles |->
                    [gsd.styles[k] EXCEPT !.taille = float_repr(@)]],
     block_style_refs |-> gsd.block_style_refs]

\* load_session: json.load
JsonLoad(file) ==
    [styles |-> [k \in DOMAIN file.styles |->
                    [file.styles[k] EXCEPT !.taille = float_parse(@)]],
     block_style_refs |-> file.block_style_refs,
     origin |-> "disk"]

InitExport ==
    /\ pc = "session"
    /\ NoDocument
    /\ NoOverlay
    /\ global_styles = <<>>
    /\ style_mapping = <<>>
    /\ block_additional_style_refs = <<>>
    /\ session_data = NoSession
    /\ export_blocks \in ExportInputs
    /\ calls = <<>>
    /\ exports = <<>>

\* generate_translation_format_and_metadata_files / export_for_reconstruction:
\* a generator built from the session, the export, the session updated
GenerateFiles ==
    /\ pc = "session"
    /\ Len(exports) < MaxExports
    /\ LET gen == DualOutputGenerator_init(session_data)
           g == generate_formatting_format(gen, export_blocks)
       IN /\ global_styles' = g.global_styles
          /\ style_mapping' = g.style_mapping
          /\ block_additional_style_refs' = g.block_additional_style_refs
          /\ session_data' = [styles |-> g.global_styles,
                              block_style_refs |-> g.block_additional_style_refs,
                              origin |-> "memory"]
          /\ exports' = Append(exports,
                               [global_styles |-> g.global_styles,
                                default_style_refs |-> g.block_default_style_refs,
                                block_style_refs |-> g.block_additional_style_refs,
                                loaded_from |-> session_data.origin])
    /\ UNCHANGED <<pc, enrichVars, overlayVars, export_blocks, calls>>

\* the application is closed and the session file read back
ReloadSession ==
    /\ pc = "session"
    /\ exports # <<>>
    /\ session_data' = JsonLoad(JsonDump(session_data))
    /\ UNCHANGED <<pc, enrichVars, overlayVars, global_styles, style_mapping,
                   block_additional_style_refs, export_blocks, calls, exports>>

NextExport == GenerateFiles \/ ReloadSession

SpecExport == InitExport /\ [][NextExport]_vars

\* the table before call j
TableBefore(j) == IF j = 1 THEN <<>> ELSE calls[j - 1].table

-----------------------------------------------------------------------------
(* Text overlay of a merge group (pdf_builder.py).  A tagged text is a     *)
(* sequence of runs: characters inside <gsN>...</gsN> (tag N), characters  *)
(* outside of any tag (tag 0), or <svg id="..."/>.  Tags are closed and    *)
(* not nested.  Every character is half an em wide; a width is a number    *)
(* of 1/4000 pt; font_scale is k/20 and char_space a number of 1/4000 pt.  *)

TextRun(tag, text) == [kind |-> "text", tag |-> tag, text |-> text, id |-> ""]

SvgRun(id) == [kind |-> "svg", tag |-> 0, text |-> <<>>, id |-> id]

TextSeg(text, style) == [type |-> "text", text |-> text, style |-> style, id |-> ""]

SvgSeg(id, style) == [type |-> "svg", text |-> <<>>, style |-> style, id |-> id]

\* re.findall(r'\s+|\S+', s)
RECURSIVE tokenize_preserve_spaces(_)
tokenize_preserve_spaces(t) ==
    IF t = <<>> THEN <<>>
    ELSE LET other == {i \in DOMAIN t : IsSpace(t[i]) # IsSpace(t[1])}
             n == IF other = {} THEN Len(t) ELSE SetMin(other) - 1
         IN <<SubSeq(t, 1, n)>> \o tokenize_preserve_spaces(SubSeq(t, n + 1, Len(t)))

\* str.split()
Split(t) ==
    LET toks == tokenize_preserve_spaces(t)
    IN SelectIdx(toks, {i \in DOMAIN toks : ~IsSpace(toks[i][1])})

\* ' '.join(words)
RECURSIVE Join(_)
Join(words) ==
    IF words = <<>> THEN <<>>
    ELSE IF Len(words) = 1 THEN words[1]
    ELSE words[1] \o <<" ">> \o Join(Tail(words))

\* the text f"[[SVG_{svg_id}]]"
UnknownSvgText(id) == <<"[", "[", "S", "V", "G", "_", id, "]", "]">>

\* the matches of tag_pattern: the characters between two tags are one
\* match of [^<]+, whatever runs they came from
RECURSIVE PatternMatches(_)
PatternMatches(runs) ==
    IF runs = <<>> THEN <<>>
    ELSE IF Len(runs) >= 2 /\ runs[1].kind = "text" /\ runs[1].tag = 0
            /\ runs[2].kind = "text" /\ runs[2].tag = 0
    THEN PatternMatches(<<TextRun(0, runs[1].text \o runs[2].text)>>
                           \o SubSeq(runs, 3, Len(runs)))
    ELSE <<Head(runs)>> \o PatternMatches(Tail(runs))

\* a parser that drops what it cannot resolve
MatchSegmentsResolvedOnly(run, default_style, styles_dict, svg_mapping_data) ==
    IF run.kind = "svg"
    THEN IF run.id \in DOMAIN svg_mapping_data
         THEN <<SvgSeg(run.id, default_style)>> ELSE <<>>
    ELSE IF run.text = <<>> THEN <<>>
    ELSE IF run.tag = 0 THEN <<TextSeg(run.text, default_style)>>
    ELSE IF run.tag \in DOMAIN styles_dict
    THEN <<TextSeg(run.text, styles_dict[run.tag])>> ELSE <<>>

\* lines 240-271: the segment of one match, if any
MatchSegments(run, default_style, styles_dict, svg_mapping_data) ==
    IF run.kind = "svg"
    THEN IF run.id \in DOMAIN svg_mapping_data
         THEN <<SvgSeg(run.id, default_style)>>
         ELSE <<TextSeg(UnknownSvgText(run.id), default_style)>>
    ELSE IF run.text = <<>> THEN <<>>
    ELSE IF run.tag = 0 THEN <<TextSeg(run.text, default_style)>>
    ELSE <<TextSeg(run.text, IF run.tag \in DOMAIN styles_dict
                             THEN styles_dict[run.tag] ELSE default_style)>>

RECURSIVE ConcatSegs(_)
ConcatSegs(ss) == IF ss = <<>> THEN <<>> ELSE Head(ss) \o ConcatSegs(Tail(ss))

EndsWithSpace(t) == t[Len(t)] \in {" ", "\n"}

StartsWithSpace(t) == t[1] \in {" ", "\n"}

\* lines 278-287
NeedSpace(prev_seg, seg) ==
    IF prev_seg.type = "text" /\ seg.type = "text"
    THEN ~EndsWithSpace(prev_seg.text) /\ ~StartsWithSpace(seg.text)
    ELSE IF prev_seg.type = "text" /\ seg.type = "svg"
    THEN ~EndsWithSpace(prev_seg.text)
    ELSE IF prev_seg.type = "svg" /\ seg.type = "text"
    THEN ~StartsWithSpace(seg.text)
    ELSE FALSE

\* lines 274-290: a space segment between two segments that touch
RECURSIVE CorrectSpaces(_, _)
CorrectSpaces(segments, corrected) ==
    IF segments = <<>> THEN corrected
    ELSE LET seg == Head(segments)
             prev_seg == corrected[Len(corrected)]
         IN CorrectSpaces(Tail(segments),
               IF corrected # <<>> /\ NeedSpace(prev_seg, seg)
               THEN corrected \o <<TextSeg(<<" ">>, prev_seg.style), seg>>
               ELSE Append(corrected, seg))

\* lines 236-271: the loop over the matches
SegmentsOfMatches(ms, default_style, styles_dict, svg_mapping_data) ==
    ConcatSegs([i \in DOMAIN ms |->
                  MatchSegments(ms[i], default_style, styles_dict, svg_mapping_data)])

\* lines 292-295: the runs of spaces of every text segment collapsed
CollapseSegments(corrected) ==
    [i \in DOMAIN corrected |->
        IF corrected[i].type = "text"
        THEN [corrected[i] EXCEPT !.text = CollapseSpaces(@)]
        ELSE corrected[i]]

\* parse_tagged_text(text, default_style, styles_dict, svg_mapping_data)
parse_tagged_text(text, default_style, styles_dict, svg_mapping_data) ==
    CollapseSegments(
       CorrectSpaces(SegmentsOfMatches(PatternMatches(text), default_style, styles_dict,
                                       svg_mapping_data),
                     <<>>))

\* the (font_scale, char_space) tried for a group, lines 1122-1123, and the
\* forced one, lines 1147-1148
GroupLevels ==
    <<[k |-> 20, cs |-> -400], [k |-> 19, cs |-> -400], [k |-> 18, cs |-> -400],
      [k |-> 17, cs |-> -800], [k |-> 16, cs |-> -800], [k |-> 15, cs |-> -800],
      [k |-> 14, cs |-> -800]>>

ForcedLevel == [k |-> 13, cs |-> -1200]

\* a token that grows when the characters are set tighter
TokenWidthGrowing(token, style, lvl) ==
    Len(token) * style.taille.h * lvl.k
       - (IF IsSpace(token[1]) THEN 0 ELSE Len(token) * lvl.cs)

\* lines 399-401: stringWidth(token, font, size) + len(token) * char_space
TokenWidth(token, style, lvl) ==
    Len(token) * style.taille.h * lvl.k
       + (IF IsSpace(token[1]) THEN 0 ELSE Len(token) * lvl.cs)

\* lines 424-425
SvgWidth(props, lvl) == props.taille_texte_reference * lvl.k * 2 * props.ratio_largeur_hauteur

\* get_effective_maxwidth(line_idx), lines 346-367
EffectiveMaxWidth(blockdata, line_idx) ==
    IF ~Field(blockdata, "is_list", FALSE) THEN blockdata.max_allowable_width
    ELSE IF line_idx = 0 \/ Field(blockdata, "list_hang", TRUE)
    THEN Max2(0, blockdata.max_allowable_width - Field(blockdata, "list_indent", 0))
    ELSE blockdata.max_allowable_width

\* str.split('\n')
RECURSIVE SplitLines(_)
SplitLines(t) ==
    LET nl == {i \in DOMAIN t : t[i] = "\n"}
    IN IF nl = {} THEN <<t>>
       ELSE <<SubSeq(t, 1, SetMin(nl) - 1)>> \o SplitLines(SubSeq(t, SetMin(nl) + 1, Len(t)))

\* what the loops of calculate_reflow place: a token, an image, or the
\* break in front of a part that follows a newline (i > 0, lines 381-388)
TokenItem(token, style, lvl) ==
    [kind |-> "text", text |-> token, space |-> IsSpace(token[1]),
     w |-> TokenWidth(token, style, lvl), h |-> style.taille.h * lvl.k]

SvgItem(id, props, lvl) ==
    [kind |-> "svg", text |-> <<id>>, space |-> FALSE, w |-> SvgWidth(props, lvl),
     h |-> props.taille_texte_reference * lvl.k]

BreakItem == [kind |-> "newline", text |-> <<>>, space |-> FALSE, w |-> 0, h |-> 0]

\* lines 390-395: the items of the tokens of a part
TokenItems(tokens, style, lvl) ==
    [j \in DOMAIN tokens |-> TokenItem(tokens[j], style, lvl)]

\* lines 380-395: the items of the parts of a text
RECURSIVE PartItems(_, _, _, _)
PartItems(parts, i, style, lvl) ==
    IF i > Len(parts) THEN <<>>
    ELSE (IF i > 1 THEN <<BreakItem>> ELSE <<>>)
         \o TokenItems(tokenize_preserve_spaces(parts[i]), style, lvl)
         \o PartItems(parts, i + 1, style, lvl)

\* the items of a segment, lines 373-425
SegItems(segment, svg_mapping_data, lvl) ==
    IF segment.type = "svg"
    THEN <<SvgItem(segment.id, svg_mapping_data[segment.id], lvl)>>
    ELSE PartItems(SplitLines(segment.text), 1, segment.style, lvl)

\* lines 383-388 and 405-409: the current line is closed
CloseLine(st, keep_empty) ==
    [lines |-> IF st.current_line # <<>> \/ keep_empty
               THEN Append(st.lines, st.current_line) ELSE st.lines,
     indexes |-> IF st.current_line # <<>> \/ keep_empty
                 THEN Append(st.indexes, st.line_index) ELSE st.indexes,
     current_line |-> <<>>,
     width |-> 0,
     line_index |-> st.line_index + 1]

\* lines 411-419 and 435-443
PutItem(st, it) ==
    [st EXCEPT !.current_line = Append(@, it), !.width = @ + it.w]

\* the loops that break a line only once it is over the width
RECURSIVE PlaceItemsOnceOver(_, _, _)
PlaceItemsOnceOver(items, blockdata, st) ==
    IF items = <<>> THEN st
    ELSE LET it == Head(items)
         IN PlaceItemsOnceOver(Tail(items), blockdata,
               IF it.kind = "newline" THEN CloseLine(st, FALSE)
               ELSE IF /\ ~it.space
                       /\ st.width > EffectiveMaxWidth(blockdata, st.line_index)
                       /\ st.current_line # <<>>
               THEN PutItem(CloseLine(st, FALSE), it)
               ELSE PutItem(st, it))

\* lines 380-443: st = [lines, indexes, current_line, width, line_index],
\* indexes the line_index that each line of lines was filled at
RECURSIVE PlaceItems(_, _, _)
PlaceItems(items, blockdata, st) ==
    IF items = <<>> THEN st
    ELSE LET it == Head(items)
         IN PlaceItems(Tail(items), blockdata,
               IF it.kind = "newline" THEN CloseLine(st, FALSE)
               ELSE IF /\ ~it.space
                       /\ st.width + it.w > EffectiveMaxWidth(blockdata, st.line_index)
                       /\ st.current_line # <<>>
               THEN PutItem(CloseLine(st, FALSE), it)
               ELSE PutItem(st, it))

\* lines 445-448: the current line is appended when it is not empty
ReflowResult(st) == IF st.current_line # <<>> THEN Append(st.lines, st.current_line) ELSE st.lines

\* the state of the loops of calculate_reflow after the last segment
reflow_state(segments, blockdata, svg_mapping_data, lvl) ==
    PlaceItems(ConcatSegs([i \in DOMAIN segments |->
                             SegItems(segments[i], svg_mapping_data, lvl)]),
               blockdata,
               [lines |-> <<>>, indexes |-> <<>>, current_line |-> <<>>, width |-> 0,
                line_index |-> 0])

\* calculate_reflow(segments, blockdata, svgmappingdata, font_scale,
\* char_space): the lines, each the sequence of the items placed on it
reflow_lines(segments, blockdata, svg_mapping_data, lvl) ==
    ReflowResult(reflow_state(segments, blockdata, svg_mapping_data, lvl))

\* the value of line_index that each returned line was filled at
reflow_indexes(segments, blockdata, svg_mapping_data, lvl) ==
    LET st == reflow_state(segments, blockdata, svg_mapping_data, lvl)
    IN IF st.current_line # <<>> THEN Append(st.indexes, st.line_index) ELSE st.indexes

\* len(calculate_reflow(...))
calculate_reflow(segments, blockdata, svg_mapping_data, lvl) ==
    Len(reflow_lines(segments, blockdata, svg_mapping_data, lvl))

\* the style triple compared by the reverse lookup (lines 983-987, 999-1003)
StyleKey(style) == <<style.police, style.taille, style.couleur>>

\* style_to_tag.get(style_key): the last tag of the table with the triple,
\* 0 when there is none
StyleToTag(style, styles) ==
    LET tags == {t \in DOMAIN styles : StyleKey(styles[t]) = StyleKey(style)}
    IN IF tags = {} THEN 0 ELSE SetMax(tags)

\* _reconstruct_text_with_balises_preserved(segments, global_styles)
RECURSIVE reconstruct_text_with_balises_preserved(_, _)
reconstruct_text_with_balises_preserved(segments, styles) ==
    IF segments = <<>> THEN <<>>
    ELSE LET seg == Head(segments)
             rest == reconstruct_text_with_balises_preserved(Tail(segments), styles)
         IN IF seg.type = "svg" THEN <<SvgRun(seg.id)>> \o rest
            ELSE IF seg.text = <<>> THEN rest
            ELSE <<TextRun(StyleToTag(seg.style, styles), seg.text)>> \o rest

\* lines 927-937: the number of leading words that fit, each count tried in
\* turn until one does not
RECURSIVE WordsFitted(_, _, _, _, _, _)
WordsFitted(words, word_count, cur_style, block_segments, block, env) ==
    IF word_count > Len(words) THEN Len(words)
    ELSE IF calculate_reflow(
               Append(block_segments,
                      TextSeg(Join(SubSeq(words, 1, word_count)), cur_style)),
               block, env.svg, env.lvl) <= block.lignes_originales
    THEN WordsFitted(words, word_count + 1, cur_style, block_segments, block, env)
    ELSE word_count - 1

\* lines 939-954: the words that fit go to the block, the others stay in
\* the segment, which ends the filling of the block
CutSegment(st, words, words_fitted) ==
    LET current_seg == st.segments[st.idx]
        fitted_text == Join(SubSeq(words, 1, words_fitted))
        remaining_text == Join(SubSeq(words, words_fitted + 1, Len(words)))
    IN IF words_fitted = 0 THEN st
       ELSE IF Strip(remaining_text) # <<>>
       THEN [segments |-> [st.segments EXCEPT
                             ![st.idx] = TextSeg(remaining_text, current_seg.style)],
             idx |-> st.idx,
             block_segments |-> Append(st.block_segments,
                                       TextSeg(fitted_text, current_seg.style))]
       ELSE [segments |-> st.segments,
             idx |-> st.idx + 1,
             block_segments |-> Append(st.block_segments,
                                       TextSeg(fitted_text, current_seg.style))]

\* lines 924-956: a text segment that does not fit as a whole
SplitSegment(st, words, block, env) ==
    CutSegment(st, words,
               WordsFitted(words, 1, st.segments[st.idx].style, st.block_segments,
                           block, env))

\* lines 908-956: the filling of one block; st = [segments, idx, block_segments]
\* with idx the 1-based index of the next segment
RECURSIVE FillBlock(_, _, _)
FillBlock(block, env, st) ==
    IF st.idx > Len(st.segments) THEN st
    ELSE
      LET current_seg == st.segments[st.idx]
      IN IF calculate_reflow(Append(st.block_segments, current_seg),
                             block, env.svg, env.lvl) <= block.lignes_originales
         THEN FillBlock(block, env,
                 [st EXCEPT !.block_segments = Append(@, current_seg),
                            !.idx = @ + 1])
         ELSE IF current_seg.type = "text" /\ Strip(current_seg.text) # <<>>
         THEN SplitSegment(st, Split(current_seg.text), block, env)
         ELSE st

\* lines 957-959: the share of a filled block joins the result
BlockFilled(block, env, r, st) ==
    [segments |-> st.segments,
     idx |-> st.idx,
     result |-> (block.id :>
                   reconstruct_text_with_balises_preserved(st.block_segments, env.styles))
                @@ r.result]

\* lines 903-959: the loop over the blocks; r = [segments, idx, result]
RECURSIVE FillBlocks(_, _, _)
FillBlocks(blocks, env, r) ==
    IF blocks = <<>> THEN r
    ELSE FillBlocks(Tail(blocks), env,
            BlockFilled(Head(blocks), env, r,
                        FillBlock(Head(blocks), env,
                                  [segments |-> r.segments, idx |-> r.idx,
                                   block_segments |-> <<>>])))

\* Python's None as a distribution
PyNone == [none |-> TRUE, shares |-> <<>>]

\* lines 892-893: default_style_ref 0 stands for a block without the key
ResolvedDefaultStyle(first_block, styles) ==
    IF first_block.default_style_ref # 0
    THEN styles[first_block.default_style_ref]
    ELSE first_block.default_style

\* lines 961-965: None when segments are left, the shares otherwise
Distribution(r) ==
    IF r.idx <= Len(r.segments) THEN PyNone ELSE [none |-> FALSE, shares |-> r.result]

\* redistribute_merged_text_fillstrategy(merged_text, group_blocks_sorted,
\* svg_mapping_data, global_styles, font_scale, char_space): the shares by
\* block id, or None
redistribute_merged_text_fillstrategy(merged_text, blocks, svg_mapping_data, styles, lvl) ==
    Distribution(
       FillBlocks(blocks, [svg |-> svg_mapping_data, styles |-> styles, lvl |-> lvl],
                  [segments |-> parse_tagged_text(merged_text,
                                                  ResolvedDefaultStyle(blocks[1], styles),
                                                  styles, svg_mapping_data),
                   idx |-> 1, result |-> <<>>]))

\* lines 1122-1138: the first level whose distribution is not None, 0 when
\* there is none
RECURSIVE FirstFittingLevel(_, _, _, _, _)
FirstFittingLevel(i, merged_text, blocks, svg_mapping_data, styles) ==
    IF i > Len(GroupLevels) THEN 0
    ELSE IF redistribute_merged_text_fillstrategy(merged_text, blocks, svg_mapping_data,
                                                  styles, GroupLevels[i]).none = FALSE
    THEN i
    ELSE FirstFittingLevel(i + 1, merged_text, blocks, svg_mapping_data, styles)

MaxRuns == 2

MaxLines == 2

\* the 10pt styles of the overlay: gs1 and gs2 of the table, and a default
\* style that has no entry in the table
GroupStyles ==
    (1 :> [police |-> "Arial", taille |-> [h |-> 1000, e |-> 0], couleur |-> 0])
    @@ (2 :> [police |-> "Times", taille |-> [h |-> 1000, e |-> 0], couleur |-> 0])

UnlistedStyle == [police |-> "Arial", taille |-> [h |-> 1000, e |-> 0], couleur |-> 255]

\* resolve_style_ref's fallback (line 1183)
FallbackStyle == [police |-> "Helvetica", taille |-> [h |-> 1050, e |-> 0], couleur |-> 0]

\* one image, 10pt high and as wide
SvgMapping == [s1 |-> [taille_texte_reference |-> 1000, ratio_largeur_hauteur |-> 1]]

\* the runs of a translation: plain, styled by gs2, styled by an id that
\* the table does not have, or an image
RunTexts == {<<"a", "a">>, <<" ", "b", "b", " ", "c", "c">>,
             <<"a", "a", " ", "b", "b">>, <<"c", "c", " ">>}

RunPool == {TextRun(tag, t) : tag \in {0, 2, 9}, t \in RunTexts} \cup {SvgRun("s1")}

\* max_allowable_width: a little more than 4 and than 6 characters
BoxWidths == {80200, 120200}

\* a group of two blocks; the first one carries the default style
GroupInputs ==
    {<<[id |-> 1, merge_order |-> 0, lignes_originales |-> b[1], max_allowable_width |-> b[2],
        default_style_ref |-> ref, default_style |-> IF ref = 0 THEN UnlistedStyle
                                                     ELSE GroupStyles[ref]],
       [id |-> 2, merge_order |-> 1, lignes_originales |-> b[3], max_allowable_width |-> b[4],
        default_style_ref |-> ref, default_style |-> IF ref = 0 THEN UnlistedStyle
                                                     ELSE GroupStyles[ref]]>> :
        b \in (1..MaxLines) \X BoxWidths \X (1..MaxLines) \X BoxWidths, ref \in {0, 1}}

InitOverlay ==
    /\ pc = "translated"
    /\ NoDocument
    /\ global_styles = GroupStyles
    /\ style_mapping = <<>>
    /\ block_additional_style_refs = <<>>
    /\ session_data = NoSession
    /\ export_blocks = <<>>
    /\ calls = <<>>
    /\ exports = <<>>
    /\ translated_text \in SeqsOf(RunPool, 1, MaxRuns)
    /\ group_blocks_sorted \in GroupInputs
    /\ merged_groups_redistribution = <<>>
    /\ merged_groups_compression = <<>>
    /\ rendered_lines = <<>>
    /\ NoBlock
    /\ NoRewrite
    /\ NoHistory

\* lines 1175-1184: the default style of the first block of the group
RenderDefaultStyle(first_block, styles) ==
    IF first_block.default_style_ref = 0 THEN first_block.default_style
    ELSE IF first_block.default_style_ref \in DOMAIN styles
    THEN styles[first_block.default_style_ref]
    ELSE FallbackStyle

\* lines 1159-1204 for one block of the group: the lines of its share at
\* the level of the group, 0 for an empty share (skipped)
RenderLines(block, shares, lvl) ==
    IF shares[block.id] = <<>> THEN 0
    ELSE calculate_reflow(
            parse_tagged_text(shares[block.id],
                              RenderDefaultStyle(group_blocks_sorted[1], global_styles),
                              global_styles, SvgMapping),
            block, SvgMapping, lvl)

\* lines 1140-1148: the level kept for the group
LevelOfGroup(i) == IF i > 0 THEN GroupLevels[i] ELSE ForcedLevel

\* lines 1159-1204: the blocks of the group drawn from their shares
RenderShares(redistributed, lvl) ==
    /\ merged_groups_redistribution' = redistributed
    /\ merged_groups_compression' = lvl
    /\ IF redistributed.none
       THEN /\ pc' = "raised"
            /\ rendered_lines' = <<>>
       ELSE /\ pc' = "rendered"
            /\ rendered_lines' =
                  [j \in DOMAIN group_blocks_sorted |->
                     RenderLines(group_blocks_sorted[j], redistributed.shares, lvl)]

\* lines 1140-1204 at the level kept
RenderGroup(lvl) ==
    RenderShares(redistribute_merged_text_fillstrategy(
                    translated_text, group_blocks_sorted, SvgMapping, global_styles, lvl),
                 lvl)

\* create_text_overlay_pdf for the page of the group: the distribution at
\* the first level that fits or at the forced one, then the rendering of
\* every block; a distribution None makes line 1159 raise
create_text_overlay_pdf ==
    /\ pc = "translated"
    /\ RenderGroup(LevelOfGroup(FirstFittingLevel(1, translated_text, group_blocks_sorted,
                                                  SvgMapping, global_styles)))
    /\ UNCHANGED <<enrichVars, styleVars, translated_text, group_blocks_sorted, blockVars,
                   rewriteVars, historyVars>>

NextOverlay == create_text_overlay_pdf

SpecOverlay == InitOverlay /\ [][NextOverlay]_vars

(* A block that is in no merge group (pdf_builder.py, lines 1157-1246 and  *)
(* compress_block_lines).                                                  *)

\* lines 523-524, in units of 1/20 and of 1/4000 pt
font_scale_candidates == <<20, 19, 18, 17, 16, 15, 14, 13>>

char_space_candidates == <<0, -200, -400, -600, -800>>

\* the nested loops of lines 531-532 as one sequence
Ladder ==
    [i \in 1..(Len(font_scale_candidates) * Len(char_space_candidates)) |->
        [k |-> font_scale_candidates[((i - 1) \div Len(char_space_candidates)) + 1],
         cs |-> char_space_candidates[((i - 1) % Len(char_space_candidates)) + 1]]]

\* lines 509-510
BaseLevel == [k |-> 20, cs |-> 0]

\* the (L, k) whose float quotient box_height // line_spacing_scaled is one
\* below the exact one, for taille 10.0 and interligne_normal 1.2, L <= 12
FloorBelowQuotient == {<<7, 14>>}

\* lines 506 and 554-558: int(box_height // line_spacing_scaled)
max_lines_fs(block, k) ==
    ((20 * block.lignes_originales) \div k)
       - (IF <<block.lignes_originales, k>> \in FloorBelowQuotient THEN 1 ELSE 0)

\* lines 540-572: the two cases of one ladder value, n the line count of
\* the attempt; not accepted when neither holds
Accepted(n, lvl, block, max_lines_original) ==
    IF n <= max_lines_original
    THEN [is_fitted |-> TRUE, lvl |-> lvl, mode |-> "original_spacing"]
    ELSE IF n <= max_lines_fs(block, lvl.k)
    THEN [is_fitted |-> TRUE, lvl |-> lvl, mode |-> "scaled_spacing"]
    ELSE [is_fitted |-> FALSE, lvl |-> BaseLevel, mode |-> "original_spacing"]

\* lines 531-574: the first ladder value accepted from index i on
RECURSIVE CompressLoop(_, _, _, _, _)
CompressLoop(i, segs, block, svg_mapping_data, max_lines_original) ==
    IF i > Len(Ladder)
    THEN [is_fitted |-> FALSE, lvl |-> BaseLevel, mode |-> "original_spacing"]
    ELSE LET attempt == Accepted(calculate_reflow(segs, block, svg_mapping_data, Ladder[i]),
                                 Ladder[i], block, max_lines_original)
         IN IF attempt.is_fitted THEN attempt
            ELSE CompressLoop(i + 1, segs, block, svg_mapping_data, max_lines_original)

\* a fallback that keeps only the lines the box has room for
FitResultTruncated(r, segs, block, svg_mapping_data, by) ==
    [lines |-> SelectIdx(reflow_lines(segs, block, svg_mapping_data, r.lvl),
                         1..block.lignes_originales),
     lvl |-> r.lvl, mode |-> r.mode, is_fitted |-> r.is_fitted, by |-> by]

\* the tuple returned: the lines at the setting kept (lines 544, 562, 582)
FitResult(r, segs, block, svg_mapping_data, by) ==
    [lines |-> reflow_lines(segs, block, svg_mapping_data, r.lvl),
     lvl |-> r.lvl, mode |-> r.mode, is_fitted |-> r.is_fitted, by |-> by]

\* compress_block_lines(segments, block_for_reflow, svg_mapping_data,
\* max_lines_original)
compress_block_lines(segs, block, svg_mapping_data, max_lines_original) ==
    FitResult(IF calculate_reflow(segs, block, svg_mapping_data, BaseLevel)
                    <= max_lines_original
              THEN [is_fitted |-> TRUE, lvl |-> BaseLevel, mode |-> "original_spacing"]
              ELSE CompressLoop(1, segs, block, svg_mapping_data, max_lines_original),
              segs, block, svg_mapping_data, "compress_block_lines")

\* lines 1212 and 1220: max(0.55, min(0.98, (L / n) ** 0.75)) is 0.55 when
\* L / n <= 0.55 ** (4/3) = 0.45063...
EstimateClamped(lignes_originales, n) == 100000 * lignes_originales <= 45063 * n

\* lines 1218-1228: the candidates in decreasing order, with the estimate
\* at 0.55, and their char_space
test_range ==
    [i \in 1..9 |-> [k |-> 20 - i, cs |-> IF 20 - i > 17 THEN -400 ELSE -800]]

\* lines 1226-1238
RECURSIVE DynamicLoop(_, _, _, _)
DynamicLoop(i, segs, block, svg_mapping_data) ==
    IF i > Len(test_range)
    THEN [is_fitted |-> FALSE, lvl |-> BaseLevel, mode |-> "original_spacing"]
    ELSE IF calculate_reflow(segs, block, svg_mapping_data, test_range[i])
               <= block.lignes_originales
    THEN [is_fitted |-> TRUE, lvl |-> test_range[i], mode |-> "original_spacing"]
    ELSE DynamicLoop(i + 1, segs, block, svg_mapping_data)

\* lines 1206-1244: the lines handed to draw_text_block
dynamic_compression(segs, block, svg_mapping_data) ==
    FitResult(IF calculate_reflow(segs, block, svg_mapping_data, BaseLevel)
                    <= block.lignes_originales
              THEN [is_fitted |-> TRUE, lvl |-> BaseLevel, mode |-> "original_spacing"]
              ELSE DynamicLoop(1, segs, block, svg_mapping_data),
              segs, block, svg_mapping_data, "create_text_overlay_pdf")

\* lines 631-641 of draw_text_block: the height of the tallest item of a
\* line, in 1/2000 pt (the size times font_scale, the height of an image)
max_h(line) == SetMax({0} \cup {line[i].h : i \in DOMAIN line})

\* lines 643-650 and 795: what y_curr goes down by after the line, as the
\* height that the ratio interligne_normal / default_font_size multiplies
LineAdvance(block, line) ==
    IF Field(block, "compression_spacing_mode", "None") = "original_spacing"
    THEN block.default_style.taille.h * 20
    ELSE max_h(line)

\* lines 657-666 of draw_text_block: usable_width of the line line_idx
usable_width(block, line_idx) ==
    IF Field(block, "is_list", FALSE)
          /\ (line_idx = 0 \/ Field(block, "list_hang", TRUE))
    THEN block.max_allowable_width - Field(block, "list_indent", 0)
    ELSE block.max_allowable_width

\* draw_text_block(c, block, lines, svg_cache): the advance of every line
draw_text_block(block, lines) ==
    [i \in DOMAIN lines |-> LineAdvance(block, lines[i])]

\* line 1246: the lines kept by the loop handed to draw_text_block with
\* block_for_reflow
Drawn(r, block) == r @@ [advances |-> draw_text_block(block, r.lines)]

\* every (font_scale, char_space) a ladder of pdf_builder.py can try
ReflowLevels == [k : 13..20, cs : {0, -200, -400, -600, -800}]

\* the runs of the translation of a block: plain, styled with a newline,
\* styled with two newlines in front, styled by an id the table does not
\* have, an image no alias names
BlockRunPool ==
    {TextRun(0, <<"a", "a", " ", "b", "b">>),
     TextRun(0, <<" ", "b", "b", " ", "c", "c", " ", "d", "d">>),
     TextRun(2, <<"a", "a", "\n", "b", "b">>),
     TextRun(2, <<"\n", "\n", "a", "a", " ", "b", "b">>),
     TextRun(9, <<"c", "c", " ">>),
     SvgRun("x")}

\* max_allowable_width of a block: 20.05pt and 25.05pt
BlockBoxWidths == {80200, 100200}

\* the list keys of a block: none, a hanging list, a list without hang
ListKeys ==
    {<<>>,
     [is_list |-> TRUE, list_indent |-> 20000, list_hang |-> TRUE],
     [is_list |-> TRUE, list_indent |-> 20000, list_hang |-> FALSE]}

\* lignes_originales of a block
BlockLineCounts == {1, 2}

BlockInputs ==
    {[id |-> 1, lignes_originales |-> l, max_allowable_width |-> w,
      default_style_ref |-> 1, default_style |-> GroupStyles[1]] @@ keys :
        l \in BlockLineCounts, w \in BlockBoxWidths, keys \in ListKeys}

InitBlock ==
    /\ pc = "translated"
    /\ NoDocument
    /\ global_styles = GroupStyles
    /\ style_mapping = <<>>
    /\ block_additional_style_refs = <<>>
    /\ session_data = NoSession
    /\ export_blocks = <<>>
    /\ calls = <<>>
    /\ exports = <<>>
    /\ translated_text \in SeqsOf(BlockRunPool, 1, MaxRuns)
    /\ group_blocks_sorted = <<>>
    /\ merged_groups_redistribution = <<>>
    /\ merged_groups_compression = <<>>
    /\ rendered_lines = <<>>
    /\ block_for_reflow \in BlockInputs
    /\ parsed_segments = <<>>
    /\ ladder_lines = <<>>
    /\ fitted = <<>>
    /\ NoRewrite
    /\ NoHistory

\* lines 1171-1195: the translation of the block parsed with its default
\* style
ParseBlockText ==
    /\ pc = "translated"
    /\ parsed_segments' = parse_tagged_text(translated_text,
                             RenderDefaultStyle(block_for_reflow, global_styles),
                             global_styles, SvgMapping)
    /\ pc' = "parsed"
    /\ UNCHANGED <<enrichVars, styleVars, translated_text, group_blocks_sorted,
                   merged_groups_redistribution, merged_groups_compression,
                   rendered_lines, block_for_reflow, ladder_lines, fitted,
                   rewriteVars, historyVars>>

\* calculate_reflow applied to the segments at every ladder value
ReflowLadder ==
    /\ pc = "parsed"
    /\ ladder_lines' = [lvl \in ReflowLevels |->
                          calculate_reflow(parsed_segments, block_for_reflow, SvgMapping, lvl)]
    /\ pc' = "measured"
    /\ UNCHANGED <<enrichVars, styleVars, translated_text, group_blocks_sorted,
                   merged_groups_redistribution, merged_groups_compression,
                   rendered_lines, block_for_reflow, parsed_segments, fitted,
                   rewriteVars, historyVars>>

\* compress_block_lines applied to the segments of the block
CompressBlock ==
    /\ pc = "parsed"
    /\ fitted' = compress_block_lines(parsed_segments, block_for_reflow, SvgMapping,
                                      block_for_reflow.lignes_originales)
    /\ pc' = "compressed"
    /\ UNCHANGED <<enrichVars, styleVars, translated_text, group_blocks_sorted,
                   merged_groups_redistribution, merged_groups_compression,
                   rendered_lines, block_for_reflow, parsed_segments, ladder_lines,
                   rewriteVars, historyVars>>

\* lines 1210-1212: font scale k / 20 is above the estimate (L / n) ** 0.75
AboveEstimate(k, lignes_originales, n) ==
    k * k * k * k * n * n * n
        > 160000 * lignes_originales * lignes_originales * lignes_originales

\* the blocks whose loop never tries an estimate that is off the grid of the
\* candidates: nothing to compress, an estimate clamped to 0.55, or a
\* candidate above the estimate that fits (the loop stops there, line 1238)
OnGrid(segs, block, n) ==
    \/ n <= block.lignes_originales
    \/ EstimateClamped(block.lignes_originales, Max2(1, n))
    \/ \E i \in DOMAIN test_range :
          /\ AboveEstimate(test_range[i].k, block.lignes_originales, n)
          /\ calculate_reflow(segs, block, SvgMapping, test_range[i])
                <= block.lignes_originales

\* lines 1206-1246 of create_text_overlay_pdf, for the blocks whose loop
\* stays on the grid of the candidates
DrawBlock ==
    /\ pc = "parsed"
    /\ OnGrid(parsed_segments, block_for_reflow,
              calculate_reflow(parsed_segments, block_for_reflow, SvgMapping, BaseLevel))
    /\ fitted' = Drawn(dynamic_compression(parsed_segments, block_for_reflow, SvgMapping),
                        [block_for_reflow EXCEPT
                            !.default_style = RenderDefaultStyle(block_for_reflow,
                                                                 global_styles)])
    /\ pc' = "drawn"
    /\ UNCHANGED <<enrichVars, styleVars, translated_text, group_blocks_sorted,
                   merged_groups_redistribution, merged_groups_compression,
                   rendered_lines, block_for_reflow, parsed_segments, ladder_lines,
                   rewriteVars, historyVars>>

NextBlock == ParseBlockText \/ ReflowLadder \/ CompressBlock \/ DrawBlock

SpecBlock == InitBlock /\ [][NextBlock]_vars

(* The rewriting of local style tags of a block into global ones           *)
(* (extract.py, DualOutputGenerator._replace_local_styles_with_global).    *)

MaxTagRuns == 2

MaxRewrites == 2

\* lines 1301-1304: the loop over block_mapping.items(), each item a pair
\* <<K, N>> for the local tag sK and the global tag gsN
RECURSIVE ReplaceItems(_, _)
ReplaceItems(text, items) ==
    IF items = <<>> THEN text
    ELSE ReplaceItems(
            Replace(Replace(text, OpenMarker(LocalTag(Head(items)[1])),
                            OpenMarker(GlobalTag(Head(items)[2]))),
                    CloseMarker(LocalTag(Head(items)[1])),
                    CloseMarker(GlobalTag(Head(items)[2]))),
            Tail(items))

\* _replace_local_styles_with_global(styled_text, block_id, style_mapping)
\* with mapping = [present, items] for style_mapping and block_id: present
\* is block_id in style_mapping, items are those of style_mapping[block_id]
replace_local_styles_with_global(text, mapping) ==
    IF ~mapping.present THEN text ELSE ReplaceItems(text, mapping.items)

\* the local tags a mapping may have and the global ids it may give
MappedLocalKeys == {1, 12}

GlobalKeys == {1, 2}

\* a dict of local tags: pairs with distinct keys, in insertion order
MappingItems ==
    {q \in SeqsOf(MappedLocalKeys \X GlobalKeys, 0, Cardinality(MappedLocalKeys)) :
        \A i, j \in DOMAIN q : i # j => q[i][1] # q[j][1]}

BlockMappings ==
    {[present |-> FALSE, items |-> <<>>]}
    \cup {[present |-> TRUE, items |-> q] : q \in MappingItems}

\* the tagged runs of a styled content (lines 545-560): plain, in a local
\* tag (s1, s2, s12), in a global one, and a local tag inside another
StyledRunPool ==
    {<<"a">>,
     OpenMarker(LocalTag(1)) \o <<"a">> \o CloseMarker(LocalTag(1)),
     OpenMarker(LocalTag(2)) \o <<"b">> \o CloseMarker(LocalTag(2)),
     OpenMarker(LocalTag(12)) \o <<"b">> \o CloseMarker(LocalTag(12)),
     OpenMarker(GlobalTag(1)) \o <<"a">> \o CloseMarker(GlobalTag(1)),
     OpenMarker(LocalTag(1)) \o <<"a">> \o OpenMarker(LocalTag(12)) \o <<"b">>
        \o CloseMarker(LocalTag(12)) \o CloseMarker(LocalTag(1))}

InitRewrite ==
    /\ pc = "tagged"
    /\ NoDocument
    /\ NoGenerator
    /\ translated_text = <<>>
    /\ group_blocks_sorted = <<>>
    /\ merged_groups_redistribution = <<>>
    /\ merged_groups_compression = <<>>
    /\ rendered_lines = <<>>
    /\ NoBlock
    /\ styled_text \in {ConcatSegs(q) : q \in SeqsOf(StyledRunPool, 1, MaxTagRuns)}
    /\ block_mapping \in BlockMappings
    /\ rewrites = <<>>
    /\ translation_data = <<>>
    /\ NoHistory

\* content = self._replace_local_styles_with_global(content, block_id,
\* style_mapping) (lines 1047, 1070), applied to its own result
ReplaceLocalStyles ==
    /\ pc = "tagged"
    /\ Len(rewrites) < MaxRewrites
    /\ styled_text' = replace_local_styles_with_global(styled_text, block_mapping)
    /\ rewrites' = Append(rewrites, styled_text)
    /\ UNCHANGED <<pc, enrichVars, styleVars, translated_text, group_blocks_sorted,
                   merged_groups_redistribution, merged_groups_compression,
                   rendered_lines, blockVars, block_mapping, translation_data,
                   historyVars>>

NextRewrite == ReplaceLocalStyles

SpecRewrite == InitRewrite /\ [][NextRewrite]_vars

-----------------------------------------------------------------------------
(* The translation source (extract.py, _generate_translation_format).  A   *)
(* generator is [global_styles, style_mapping, block_additional_style_refs];*)
(* a record is [id, source].                                               *)

\* the id of the record of a merge group
GroupId(g) == [k |-> "group", n |-> g]

\* block.get('matching_spans', []): the span dictionaries of a block
BlockSpans(block, hp) ==
    [i \in DOMAIN block.matching_spans |->
        hp[block.matching_spans[i]] @@ SpanOf(hp[block.matching_spans[i]].id)]

\* the fields of the blocks that the first pass of the formatting reads
FormattingView(blocks) ==
    [i \in DOMAIN blocks |->
        [id |-> blocks[i].id,
         default_style |-> blocks[i].default_style,
         additional_styles |->
             [K \in DOMAIN blocks[i].additional_styles |->
                 [key |-> K, style |-> blocks[i].additional_styles[K]]]]]

\* the items of a dictionary local tag -> global tag, by local tag
RECURSIVE ItemsOf(_)
ItemsOf(d) ==
    IF DOMAIN d = {} THEN <<>>
    ELSE LET K == SetMin(DOMAIN d)
         IN <<<<K, d[K]>>>> \o ItemsOf([L \in DOMAIN d \ {K} |-> d[L]])

\* style_mapping and block_id as _replace_local_styles_with_global reads them
MappingOf(refs, id) ==
    IF id \in DOMAIN refs THEN [present |-> TRUE, items |-> ItemsOf(refs[id])]
    ELSE [present |-> FALSE, items |-> <<>>]

\* lines 1035-1047, 1058-1070: the source of a block outside of the groups
block_source(block, hp, refs) ==
    replace_local_styles_with_global(
        IF block.matching_spans # <<>>
        THEN rebuild_styled_content_from_spans(BlockSpans(block, hp), block.default_style,
                                               block.additional_styles)
        ELSE block.styled_content,
        MappingOf(refs, block.id))

\* a value of matched_to_block that Python takes as true
Truthy(v) == v # None /\ v # IdxVal(0)

\* lines 1026-1031: a span of the block is matched to another block
has_consumed_spans(block, hp) ==
    \E i \in DOMAIN block.matching_spans :
        /\ Truthy(hp[block.matching_spans[i]].matched_to_block)
        /\ hp[block.matching_spans[i]].matched_to_block # block.id

\* lines 1015-1078: whether a block outside of the groups gives a record
block_is_exported(block, hp, source) ==
    IF block.block_type = "isolated_span"
    THEN /\ block.is_consumed # "yes"
         /\ block.include_in_output = "yes"
         /\ ~has_consumed_spans(block, hp)
         /\ Strip(source) # <<>>
    ELSE /\ Strip(source) # <<>>
         /\ block.include_in_output # "no"

\* a raw style triple equals an entry of global_styles (lines 968-975)
SameAsGlobal(style, gs_style) ==
    /\ gs_style.police = style.police
    /\ gs_style.taille = [h |-> style.taille, e |-> 0]
    /\ gs_style.couleur = style.couleur

\* lines 937-950: the additional styles of the blocks of the group that
\* have a global tag; um is the mapping style -> N built so far
RECURSIVE UnifyAdditional(_, _, _, _)
UnifyAdditional(blk, items, um, i) ==
    IF i > Len(items) THEN um
    ELSE LET K == items[i][1]
             known == K \in DOMAIN blk.additional_styles
                        /\ blk.additional_styles[K] \notin DOMAIN um
         IN UnifyAdditional(blk, items,
                            IF known THEN (blk.additional_styles[K] :> items[i][2]) @@ um
                            ELSE um,
                            i + 1)

RECURSIVE UnifyBlocks(_, _, _)
UnifyBlocks(blocks_sorted, refs, um) ==
    IF blocks_sorted = <<>> THEN um
    ELSE UnifyBlocks(Tail(blocks_sorted), refs,
                     UnifyAdditional(Head(blocks_sorted),
                                     MappingOf(refs, Head(blocks_sorted).id).items, um, 1))

\* lines 952-976: the default styles of the members that differ from the
\* reference style and are an entry of global_styles
RECURSIVE UnifyDefaults(_, _, _, _)
UnifyDefaults(blocks_sorted, reference, gs, um) ==
    IF blocks_sorted = <<>> THEN um
    ELSE LET style == Head(blocks_sorted).default_style
             tags == {N \in DOMAIN gs : SameAsGlobal(style, gs[N])}
         IN UnifyDefaults(Tail(blocks_sorted), reference, gs,
                          IF style # reference /\ style \notin DOMAIN um /\ tags # {}
                          THEN (style :> SetMin(tags)) @@ um
                          ELSE um)

\* lines 1112-1135: the part of a span of a member of a merge group
MergedPart(span, reference, um) ==
    IF SpanStyle(span) = reference \/ SpanStyle(span) \notin DOMAIN um THEN span.text
    ELSE OpenMarker(GlobalTag(um[SpanStyle(span)])) \o span.text
            \o CloseMarker(GlobalTag(um[SpanStyle(span)]))

RECURSIVE MergedParts(_, _, _)
MergedParts(spans, reference, um) ==
    IF spans = <<>> THEN <<>>
    ELSE (IF Head(spans).text = <<>> THEN <<>> ELSE MergedPart(Head(spans), reference, um))
            \o MergedParts(Tail(spans), reference, um)

\* _rebuild_styled_content_for_merged_group(matching_spans,
\* reference_default_style, unified_style_mapping)
rebuild_styled_content_for_merged_group(spans, reference, um) ==
    Replace(Replace(WhitespaceToSpace(MergedParts(spans, reference, um)),
                    <<" ", "<", "/">>, <<"<", "/">>),
            <<">", " ", "<">>, <<">", "<">>)

\* lines 979-994: the text of one member
member_source(blk, hp, refs, reference, um) ==
    IF blk.matching_spans # <<>>
    THEN rebuild_styled_content_for_merged_group(BlockSpans(blk, hp), reference, um)
    ELSE replace_local_styles_with_global(blk.styled_content, MappingOf(refs, blk.id))

\* sorted(blocks, key=lambda b: b.get('merge_order', 0)): a stable sort
MergeKey(blk) == IF blk.merge_order = -1 THEN 0 ELSE blk.merge_order

RECURSIVE SortByMergeOrder(_)
SortByMergeOrder(blocks) ==
    IF blocks = <<>> THEN <<>>
    ELSE LET low == SetMin({MergeKey(blocks[i]) : i \in DOMAIN blocks})
             first == SetMin({i \in DOMAIN blocks : MergeKey(blocks[i]) = low})
         IN <<blocks[first]>>
               \o SortByMergeOrder(SelectIdx(blocks, DOMAIN blocks \ {first}))

\* the unified_style_mapping of a group (lines 930-976)
unified_style_mapping(blocks_sorted, refs, gs) ==
    UnifyDefaults(blocks_sorted, blocks_sorted[1].default_style, gs,
                  UnifyBlocks(blocks_sorted, refs, <<>>))

\* lines 928-1003: the merged text of a group
merged_text(blocks_sorted, hp, refs, gs, um) ==
    JoinWithSpace([i \in DOMAIN blocks_sorted |->
                      member_source(blocks_sorted[i], hp, refs,
                                    blocks_sorted[1].default_style, um)])

\* lines 916-922: the group ids in the order of their first block
RECURSIVE GroupOrder(_, _)
GroupOrder(blocks, seen) ==
    IF blocks = <<>> THEN <<>>
    ELSE LET g == Head(blocks).merge_group_id
         IN IF g = 0 \/ g \in seen THEN GroupOrder(Tail(blocks), seen)
            ELSE <<g>> \o GroupOrder(Tail(blocks), seen \cup {g})

\* lines 928-1003: the records of the groups
GroupRecords(blocks, hp, refs, gs) ==
    LET order == GroupOrder(blocks, {})
        rec(g) ==
            LET sorted == SortByMergeOrder(SelectIdx(blocks,
                              {i \in DOMAIN blocks : blocks[i].merge_group_id = g}))
                text == merged_text(sorted, hp, refs, gs,
                                    unified_style_mapping(sorted, refs, gs))
            IN IF Strip(text) # <<>> THEN <<[id |-> GroupId(g), source |-> Strip(text)]>>
               ELSE <<>>
    IN ConcatSegs([k \in DOMAIN order |-> rec(order[k])])

\* lines 1005-1078: the records of the blocks outside of the groups
RECURSIVE BlockRecords(_, _, _, _)
BlockRecords(blocks, processed, hp, refs) ==
    IF blocks = <<>> THEN <<>>
    ELSE LET block == Head(blocks)
             source == block_source(block, hp, refs)
         IN (IF block.id \notin processed /\ block_is_exported(block, hp, source)
             THEN <<[id |-> block.id, source |-> Strip(source)]>>
             ELSE <<>>)
            \o BlockRecords(Tail(blocks), processed, hp, refs)

\* _generate_translation_format(enriched_data) on a generator
generate_translation_format(gen, blocks, hp) ==
    GroupRecords(blocks, hp, gen.block_additional_style_refs, gen.global_styles)
       \o BlockRecords(blocks,
                       {blocks[i].id : i \in {j \in DOMAIN blocks : blocks[j].merge_group_id # 0}},
                       hp, gen.block_additional_style_refs)

\* the generator the window keeps
Generator ==
    [global_styles |-> global_styles, style_mapping |-> style_mapping,
     block_additional_style_refs |-> block_additional_style_refs]

\* DualOutputGenerator(): nothing loaded
FreshGenerator ==
    [global_styles |-> <<>>, style_mapping |-> <<>>, block_additional_style_refs |-> <<>>]

\* main_window.py lines 302-303, 1602-1603: the formatting, then the
\* translation, on the generator of the window
generate_translation_files ==
    /\ pc = "enriched"
    /\ translation_data = <<>>
    /\ LET g == generate_formatting_format(Generator, FormattingView(enriched_data))
       IN /\ global_styles' = g.global_styles
          /\ style_mapping' = g.style_mapping
          /\ block_additional_style_refs' = g.block_additional_style_refs
          /\ translation_data' = generate_translation_format(g, enriched_data, heap)
    /\ pc' = "exported"
    /\ UNCHANGED <<enrichVars, session_data, export_blocks, calls, exports,
                   translated_text, group_blocks_sorted, merged_groups_redistribution,
                   merged_groups_compression, rendered_lines, blockVars, styled_text,
                   block_mapping, rewrites, historyVars>>

\* file_operations.py lines 50-53, save_corrected_files: a new generator,
\* the translation, then the formatting
save_corrected_files ==
    /\ pc = "enriched"
    /\ translation_data = <<>>
    /\ LET g == generate_formatting_format(FreshGenerator, FormattingView(enriched_data))
       IN /\ global_styles' = g.global_styles
          /\ style_mapping' = g.style_mapping
          /\ block_additional_style_refs' = g.block_additional_style_refs
          /\ translation_data' = generate_translation_format(FreshGenerator, enriched_data, heap)
    /\ pc' = "saved"
    /\ UNCHANGED <<enrichVars, session_data, export_blocks, calls, exports,
                   translated_text, group_blocks_sorted, merged_groups_redistribution,
                   merged_groups_compression, rendered_lines, blockVars, styled_text,
                   block_mapping, rewrites, historyVars>>

\* a page with spans of several styles in one block
TaggedSpanShapes ==
    {[bbox |-> <<x, 12, x + 4, 14>>, text |-> t,
      font_name |-> f, font_size |-> 1000, color_rgb |-> 0,
      is_bold |-> b, is_italic |-> FALSE] :
        x \in {12, 20, 28}, t \in {<<"a", "b">>, <<"c", " ">>},
        f \in {"Arial", "Times"}, b \in BOOLEAN}

MaxTaggedSpans == 3

\* spans side by side, left to right
TaggedSpanInputs ==
    {[i \in 1..Len(sh) |-> [id |-> i - 1] @@ sh[i]] :
        sh \in {q \in SeqsOf(TaggedSpanShapes, 1, MaxTaggedSpans) :
                   \A i \in DOMAIN q : q[i].bbox[1] = 12 + 8 * (i - 1)}}

InitTagged ==
    /\ pc = "extracted"
    /\ NoGenerator
    /\ NoOverlay
    /\ pymupdf_spans \in TaggedSpanInputs
    /\ page_data = <<[type |-> "text", bbox |-> <<10, 10, 50, 30>>, content |-> <<>>]>>
    /\ heap = ExtractedHeap(pymupdf_spans)
    /\ enriched_data = <<>>
    /\ nops = 0

NextTagged == Enrich \/ generate_translation_files \/ save_corrected_files

SpecTagged == InitTagged /\ [][NextTagged]_vars

\* two layout blocks and spans in them: one in the upper block, up to two
\* in the lower one, in two fonts and two sizes
GroupSpanShapes ==
    {[bbox |-> box, text |-> t, font_name |-> f, font_size |-> z, color_rgb |-> 0,
      is_bold |-> FALSE, is_italic |-> FALSE] :
        box \in {<<12, 12, 16, 14>>, <<12, 32, 16, 34>>, <<20, 32, 24, 34>>},
        t \in {<<"a", "b">>, <<"c", " ", "d">>}, f \in {"Arial", "Times"}, z \in {1000, 1207}}

MaxGroupSpans == 3

GroupSpanInputs ==
    {[i \in 1..Len(sh) |-> [id |-> i - 1] @@ sh[i]] :
        sh \in {q \in SeqsOf(GroupSpanShapes, 2, MaxGroupSpans) :
                   /\ q[1].bbox = <<12, 12, 16, 14>>
                   /\ q[2].bbox = <<12, 32, 16, 34>>
                   /\ Len(q) > 2 => q[3].bbox = <<20, 32, 24, 34>>}}

InitGroup ==
    /\ pc = "extracted"
    /\ NoGenerator
    /\ NoOverlay
    /\ pymupdf_spans \in GroupSpanInputs
    /\ page_data = <<[type |-> "text", bbox |-> <<10, 10, 50, 18>>, content |-> <<>>],
                     [type |-> "text", bbox |-> <<10, 30, 50, 40>>, content |-> <<>>]>>
    /\ heap = ExtractedHeap(pymupdf_spans)
    /\ enriched_data = <<>>
    /\ nops = 0

NextGroup ==
    \/ Enrich
    \/ \E block_ids \in DistinctSeqs({enriched_data[i].id : i \in DOMAIN enriched_data}, 2, 2) :
          merge_blocks(block_ids, 1)
    \/ generate_translation_files
    \/ save_corrected_files

SpecGroup == InitGroup /\ [][NextGroup]_vars

\* the export of a page after manual corrections and merges
NextRecords ==
    \/ NextCorr
    \/ \E block_ids \in DistinctSeqs({enriched_data[i].id : i \in DOMAIN enriched_data}, 2, 2) :
          merge_blocks(block_ids, 1)
    \/ generate_translation_files
    \/ save_corrected_files

SpecRecords == InitCorr /\ [][NextRecords]_vars

-----------------------------------------------------------------------------
(* Undo and redo (state_manager.py, main_window.py).  The enriched data of *)
(* the editor is a version number: every modifying action gives a version  *)
(* that was never seen before.                                             *)

\* StateManager.MAX_HISTORY
MAX_HISTORY == 20

\* modifying actions and undo or redo calls of a session
MaxEdits == 22

MaxReverts == 3

\* the return value None of undo and redo
NoState == -1

\* save_state that keeps every state
save_state_keeping_all(h, state) ==
    LET kept == IF h.history_index < Len(h.history) - 1
                THEN SubSeq(h.history, 1, h.history_index + 1) ELSE h.history
    IN [history |-> Append(kept, state), history_index |-> h.history_index + 1]

\* StateManager.save_state(state) on h = [history, history_index]
save_state(h, state) ==
    LET full == Len(h.history) >= MAX_HISTORY
        popped == IF full THEN Tail(h.history) ELSE h.history
        index == IF full THEN h.history_index - 1 ELSE h.history_index
        kept == IF index < Len(popped) - 1 THEN SubSeq(popped, 1, index + 1) ELSE popped
    IN [history |-> Append(kept, state), history_index |-> index + 1]

can_undo(h) == h.history_index > 0

can_redo(h) == h.history_index < Len(h.history) - 1

\* StateManager.undo(): the manager after the call and the value returned
undo(h) ==
    IF ~can_undo(h) THEN [h |-> h, state |-> NoState]
    ELSE [h |-> [h EXCEPT !.history_index = @ - 1], state |-> h.history[h.history_index]]

\* StateManager.redo()
redo(h) ==
    IF ~can_redo(h) THEN [h |-> h, state |-> NoState]
    ELSE [h |-> [h EXCEPT !.history_index = @ + 1],
          state |-> h.history[h.history_index + 2]]

\* the manager of the window
Manager == [history |-> history, history_index |-> history_index]

\* what last_call keeps of a call: its name, the state passed or returned,
\* the manager and the enriched data before it
Call(op, state) ==
    [op |-> op, state |-> state, history |-> history, history_index |-> history_index,
     editor_data |-> editor_data]

InitEditor ==
    /\ pc = "editing"
    /\ NoDocument
    /\ NoGenerator
    /\ translated_text = <<>>
    /\ group_blocks_sorted = <<>>
    /\ merged_groups_redistribution = <<>>
    /\ merged_groups_compression = <<>>
    /\ rendered_lines = <<>>
    /\ NoBlock
    /\ NoRewrite
    /\ NoHistory

\* a modifying action of the window, move_span_up and the like: save_state,
\* then the change of the enriched data
modifying_action ==
    /\ pc = "editing"
    /\ nops < MaxEdits
    /\ LET h == save_state(Manager, editor_data)
       IN /\ history' = h.history
          /\ history_index' = h.history_index
    /\ editor_data' = nops + 1
    /\ nops' = nops + 1
    /\ last_call' = Call("save_state", editor_data)
    /\ UNCHANGED <<pc, pymupdf_spans, page_data, heap, enriched_data, styleVars,
                   translated_text, group_blocks_sorted, merged_groups_redistribution,
                   merged_groups_compression, rendered_lines, blockVars, rewriteVars,
                   reverts>>

\* BlockValidationInterface.undo
window_undo ==
    /\ pc = "editing"
    /\ reverts < MaxReverts
    /\ LET r == undo(Manager)
       IN /\ history' = r.h.history
          /\ history_index' = r.h.history_index
          /\ editor_data' = IF r.state # NoState THEN r.state ELSE editor_data
          /\ last_call' = Call("undo", r.state)
    /\ reverts' = reverts + 1
    /\ UNCHANGED <<pc, enrichVars, styleVars, translated_text, group_blocks_sorted,
                   merged_groups_redistribution, merged_groups_compression,
                   rendered_lines, blockVars, rewriteVars>>

\* BlockValidationInterface.redo
window_redo ==
    /\ pc = "editing"
    /\ reverts < MaxReverts
    /\ LET r == redo(Manager)
       IN /\ history' = r.h.history
          /\ history_index' = r.h.history_index
          /\ editor_data' = IF r.state # NoState THEN r.state ELSE editor_data
          /\ last_call' = Call("redo", r.state)
    /\ reverts' = reverts + 1
    /\ UNCHANGED <<pc, enrichVars, styleVars, translated_text, group_blocks_sorted,
                   merged_groups_redistribution, merged_groups_compression,
                   rendered_lines, blockVars, rewriteVars>>

\* StateManager.clear()
clear ==
    /\ pc = "editing"
    /\ history # <<>>
    /\ history' = <<>>
    /\ history_index' = -1
    /\ last_call' = Call("clear", NoState)
    /\ UNCHANGED <<pc, enrichVars, styleVars, translated_text, group_blocks_sorted,
                   merged_groups_redistribution, merged_groups_compression,
                   rendered_lines, blockVars, rewriteVars, editor_data, reverts>>

NextEditor == modifying_action \/ window_undo \/ window_redo

SpecEditor == InitEditor /\ [][NextEditor]_vars

NextHistory == modifying_action \/ window_undo \/ window_redo \/ clear

SpecHistory == InitEditor /\ [][NextHistory]_vars

\* the text without its tags: the characters, an image as a word of its own
RECURSIVE PlainText(_)
PlainText(runs) ==
    IF runs = <<>> THEN <<>>
    ELSE (IF Head(runs).kind = "svg" THEN <<" ", Head(runs).id, " ">>
          ELSE Head(runs).text) \o PlainText(Tail(runs))

\* the characters other than spaces, each with the tag around it
RECURSIVE TaggedChars(_)
TaggedChars(runs) ==
    IF runs = <<>> THEN <<>>
    ELSE (IF Head(runs).kind = "svg" THEN <<<<Head(runs).id, 0>>>>
          ELSE LET t == SelectIdx(Head(runs).text,
                                  {i \in DOMAIN Head(runs).text : ~IsSpace(Head(runs).text[i])})
               IN [i \in DOMAIN t |-> <<t[i], Head(runs).tag>>])
         \o TaggedChars(Tail(runs))

\* the shares of the blocks, in merge_order
SharesInOrder ==
    [j \in DOMAIN group_blocks_sorted |->
        merged_groups_redistribution.shares[group_blocks_sorted[j].id]]

\* a distribution was returned
Distributed == pc \in {"rendered", "raised"} /\ ~merged_groups_redistribution.none

-----------------------------------------------------------------------------
(* C1: after the enrichment of a page, the span-id sets of two distinct    *)
(* blocks (layout and isolated alike) are disjoint.                        *)
C1_NoDoubleAssignment ==
    pc = "enriched" =>
        \A i, j \in DOMAIN enriched_data :
            i # j => SpanIds(enriched_data[i]) \cap SpanIds(enriched_data[j]) = {}

\* a span that qualified for two layout blocks has been enriched
C1_Witness ==
    /\ pc = "enriched"
    /\ \E s \in Range(pymupdf_spans) :
         \E i, j \in DOMAIN standardized_blocks(page_data) :
            /\ i # j
            /\ Qualifies(s, standardized_blocks(page_data)[i])
            /\ Qualifies(s, standardized_blocks(page_data)[j])

(* C3: the enrichment loses no span: every span is in exactly one block,   *)
(* once; a span no layout block claims is the single member of its own     *)
(* isolated_span block, which has include_in_output set.                   *)
C3_NoSpanLost ==
    pc = "enriched" =>
        \A s \in Range(pymupdf_spans) :
            LET owners == {i \in DOMAIN enriched_data : s.id \in SpanIds(enriched_data[i])}
                layout == {i \in owners : enriched_data[i].block_type # "isolated_span"}
            IN /\ Cardinality(owners) = 1
               /\ \A i \in owners :
                    Cardinality({k \in DOMAIN enriched_data[i].matching_spans :
                        heap[enriched_data[i].matching_spans[k]].id = s.id}) = 1
               /\ layout = {} =>
                    \E i \in owners :
                        /\ enriched_data[i].block_type = "isolated_span"
                        /\ enriched_data[i].id = IsoId(s.id)
                        /\ Len(enriched_data[i].matching_spans) = 1
                        /\ enriched_data[i].include_in_output = "yes"

\* a page with a claimed span and an unclaimed one has been enriched
C3_Witness ==
    /\ pc = "enriched"
    /\ \E i, j \in DOMAIN enriched_data :
         /\ enriched_data[i].block_type = "isolated_span"
         /\ enriched_data[j].block_type # "isolated_span"
         /\ enriched_data[j].matching_spans # <<>>

-----------------------------------------------------------------------------
(* C2: in every state reached by page enrichment followed by correction    *)
(* operations, a span is in the matching_spans of at most one block, and   *)
(* its matched_to_block is the id of a block exactly when the span is a    *)
(* member of that block's matching_spans.                                  *)
C2_SpanOwnership ==
    pc = "enriched" =>
       /\ \A r \in DOMAIN heap : Cardinality(BlocksHolding(heap[r].id)) <= 1
       /\ \A r \in DOMAIN heap : \A i \in DOMAIN enriched_data :
             (heap[r].matched_to_block = enriched_data[i].id)
                <=> (r \in Range(enriched_data[i].matching_spans))

-----------------------------------------------------------------------------
(* C4: after any sequence of get_or_create_global_style calls on one       *)
(* registry, two styles have the same gsN id exactly when their (font,     *)
(* size quantized to the nearest 0.2pt, color) triples are equal; the      *)
(* size stored is a multiple of 0.2pt at most 0.1pt from the size given;   *)
(* a call never changes an existing entry, and a call with a triple seen   *)
(* before returns the same id and leaves the table as it was.              *)
C4_StyleIdentity ==
    /\ \A i, j \in DOMAIN calls :
          (calls[i].key = calls[j].key)
             <=> (style_signature(calls[i].style) = style_signature(calls[j].style))
    /\ \A j \in DOMAIN calls :
          LET entry == calls[j].table[calls[j].key]
          IN /\ entry.police = calls[j].style.police
             /\ entry.couleur = calls[j].style.couleur
             /\ entry.taille.h % 20 = 0
             /\ calls[j].style.taille # NoSize
                   => AbsDiff(entry.taille.h, calls[j].style.taille) <= 10
    /\ \A j \in DOMAIN calls :
          /\ \A k \in DOMAIN TableBefore(j) :
                /\ k \in DOMAIN calls[j].table
                /\ calls[j].table[k] = TableBefore(j)[k]
          /\ (\E i \in 1..(j - 1) :
                 style_signature(calls[i].style) = style_signature(calls[j].style))
                => calls[j].table = TableBefore(j)

NearSameStep(a, b) ==
    /\ a # NoSize
    /\ b # NoSize
    /\ \E n \in 0..((SizeLo + SizeSpan) \div 20 + 1) :
          AbsDiff(a, 20 * n) < 10 /\ AbsDiff(b, 20 * n) < 10

C5_ReexportStable ==
    \A k \in 2..Len(exports) :
       /\ exports[k].global_styles = exports[k - 1].global_styles
       /\ exports[k].default_style_refs = exports[k - 1].default_style_refs
       /\ exports[k].block_style_refs = exports[k - 1].block_style_refs

C5_Witness ==
    /\ Len(exports) >= 2
    /\ exports[Len(exports)].loaded_from = "disk"
    /\ Cardinality(DOMAIN exports[1].global_styles) >= 2
    /\ \E k \in DOMAIN exports[1].global_styles : exports[1].global_styles[k].taille.e = 1
    /\ DOMAIN exports[1].block_style_refs # {}
    /\ DOMAIN exports[1].default_style_refs # {}

(* C7: in every state reached by merge_blocks and unmerge_blocks calls,    *)
(* the merge_order values of the blocks sharing one merge_group_id are     *)
(* pairwise distinct and are exactly 0..n-1 for a group of n members.      *)
C7_MergeOrderContiguous ==
    pc = "enriched" =>
       \A g \in 1..MaxGroupId :
          /\ \A i, j \in GroupMembers(g) :
                i # j => enriched_data[i].merge_order # enriched_data[j].merge_order
          /\ {enriched_data[i].merge_order : i \in GroupMembers(g)}
                = 0..(Cardinality(GroupMembers(g)) - 1)

\* the words of each run taken apart, an image as a word of its own
RECURSIVE RunWords(_)
RunWords(runs) ==
    IF runs = <<>> THEN <<>>
    ELSE (IF Head(runs).kind = "svg" THEN <<<<Head(runs).id>>>>
          ELSE Split(Head(runs).text)) \o RunWords(Tail(runs))

\* no word of the merged text runs across a tag: two runs that follow each
\* other have whitespace between them
RunsSeparated == Split(PlainText(translated_text)) = RunWords(translated_text)

(* C8: whenever redistribute_merged_text_fillstrategy returns a            *)
(* distribution, the shares taken in merge_order hold the words and the    *)
(* images of the merged text, each once and in the original order, none    *)
(* lost, duplicated or fused with a neighbour.  Stated for the merged      *)
(* texts whose runs are separated by whitespace, where the words are the   *)
(* same whether the tags are read as boundaries or not.                    *)
C8_SharesReproduceText ==
    (Distributed /\ RunsSeparated) =>
       Split(PlainText(translated_text))
          = ConcatSegs([j \in DOMAIN SharesInOrder |-> Split(PlainText(SharesInOrder[j]))])

(* C9: when the fill strategy succeeds for a group at a compression level, *)
(* the share of every block, parsed and reflowed in the box of the block   *)
(* at that level, takes at most lignes_originales lines.                   *)
C9_SharesFitBudget ==
    pc = "rendered" =>
       \A j \in DOMAIN group_blocks_sorted :
          rendered_lines[j] <= group_blocks_sorted[j].lignes_originales

(* C10: redistribution preserves inline tags exactly: a character of a     *)
(* share is inside <gsN> exactly when it was inside <gsN> in the merged    *)
(* text, and untagged characters stay untagged.  (A share is a sequence    *)
(* of closed runs, so its tags are balanced and do not overlap.)           *)
C10_TagsPreserved ==
    Distributed =>
       TaggedChars(translated_text)
          = ConcatSegs([j \in DOMAIN SharesInOrder |-> TaggedChars(SharesInOrder[j])])


(* C11: when no level of the ladder lets the text of a merge group fit     *)
(* its blocks, the text is still assigned and drawn: a distribution is     *)
(* kept for the group and no error is raised.                              *)
C11_OverflowStillAssigned ==
    (pc # "translated" /\ merged_groups_compression = ForcedLevel) =>
        (pc = "rendered" /\ ~merged_groups_redistribution.none)


(* C12: for fixed segments and a fixed block (width, list indent and hang) *)
(* the number of lines of calculate_reflow never increases when font_scale *)
(* is decreased or char_space made more negative, for every pair of        *)
(* ladder values.                                                          *)
C12_ReflowMonotone ==
    pc = "measured" =>
        \A a, b \in ReflowLevels :
            (a.k <= b.k /\ a.cs <= b.cs) => ladder_lines[a] <= ladder_lines[b]

\* a list block whose text takes fewer lines at a smaller font_scale and
\* fewer lines at a tighter char_space
C12_Witness ==
    /\ pc = "measured"
    /\ Field(block_for_reflow, "is_list", FALSE)
    /\ \E a, b \in ReflowLevels :
          a.k < b.k /\ a.cs = b.cs /\ ladder_lines[a] < ladder_lines[b]
    /\ \E a, b \in ReflowLevels :
          a.k = b.k /\ a.cs < b.cs /\ ladder_lines[a] < ladder_lines[b]


\* the tokens and images of the segments in reading order: the tokens of
\* every part of a text between two newlines, the id of an image
SegmentTokens(segs) ==
    ConcatSegs([i \in DOMAIN segs |->
        IF segs[i].type = "svg" THEN <<<<segs[i].id>>>>
        ELSE ConcatSegs([j \in DOMAIN SplitLines(segs[i].text) |->
                           tokenize_preserve_spaces(SplitLines(segs[i].text)[j])])])

\* what the lines of a layout hold, in reading order
LayoutTokens(lines) ==
    ConcatSegs([i \in DOMAIN lines |->
                  [j \in DOMAIN lines[i] |-> lines[i][j].text]])

NonSpace(t) == SelectIdx(t, {i \in DOMAIN t : ~IsSpace(t[i])})

\* the visible characters of the runs of a tagged text, an image standing
\* for its id, or for its placeholder when no alias names it
RECURSIVE RunChars(_, _)
RunChars(runs, svg_mapping_data) ==
    IF runs = <<>> THEN <<>>
    ELSE (IF Head(runs).kind = "text" THEN NonSpace(Head(runs).text)
          ELSE IF Head(runs).id \in DOMAIN svg_mapping_data THEN <<Head(runs).id>>
          ELSE UnknownSvgText(Head(runs).id))
         \o RunChars(Tail(runs), svg_mapping_data)

\* the visible characters of a list of segments
SegmentChars(segs) ==
    ConcatSegs([i \in DOMAIN segs |->
                  IF segs[i].type = "svg" THEN <<segs[i].id>> ELSE NonSpace(segs[i].text)])

\* the run is a reference that nothing resolves
Dangling(run, styles_dict, svg_mapping_data) ==
    IF run.kind = "svg" THEN run.id \notin DOMAIN svg_mapping_data
    ELSE run.tag # 0 /\ run.tag \notin DOMAIN styles_dict

(* C14: parse_tagged_text does not fail on a dangling reference: the       *)
(* content of a <gsN> whose id the style table does not have becomes a     *)
(* text segment with the default style of the block, an <svg> whose alias  *)
(* the alias table does not have becomes a text segment and no image, and  *)
(* the text of every run of the input is in the segments returned.         *)
C14_DanglingReferencesDegrade ==
    pc = "parsed" =>
        /\ \A i \in DOMAIN translated_text :
              Dangling(translated_text[i], global_styles, SvgMapping) =>
                 \E j \in DOMAIN parsed_segments :
                    /\ parsed_segments[j].type = "text"
                    /\ parsed_segments[j].style
                          = RenderDefaultStyle(block_for_reflow, global_styles)
                    /\ parsed_segments[j].text
                          = IF translated_text[i].kind = "svg"
                            THEN UnknownSvgText(translated_text[i].id)
                            ELSE CollapseSpaces(translated_text[i].text)
        /\ \A j \in DOMAIN parsed_segments :
              parsed_segments[j].type = "svg" => parsed_segments[j].id \in DOMAIN SvgMapping
        /\ SegmentChars(parsed_segments) = RunChars(translated_text, SvgMapping)

\* a text with a style id the table does not have and an image no alias
\* names, parsed
C14_Witness ==
    /\ pc = "parsed"
    /\ \E i, j \in DOMAIN translated_text :
          /\ translated_text[i].kind = "text"
          /\ Dangling(translated_text[i], global_styles, SvgMapping)
          /\ translated_text[j].kind = "svg"
          /\ Dangling(translated_text[j], global_styles, SvgMapping)
    /\ Len(parsed_segments) >= 2


\* merge_group_id and merge_order of every block
MergeFields(data) ==
    [i \in DOMAIN data |-> <<data[i].merge_group_id, data[i].merge_order>>]

(* C15: a merge_blocks call given an id that no block has is refused: it   *)
(* leaves merge_group_id and merge_order of every block as they were, and  *)
(* makes no group with missing members.                                    *)
C15_UnknownIdLeavesBlocks ==
    [][\A block_ids \in SeqsOf(IdPool, 2, MaxMergeIds), now \in 1..MaxGroupId :
          (UnknownId \in Range(block_ids) /\ merge_blocks(block_ids, now))
             => MergeFields(enriched_data') = MergeFields(enriched_data)]_vars


\* a text cut into its markers <...> and its other characters
RECURSIVE Markers(_)
Markers(t) ==
    IF t = <<>> THEN <<>>
    ELSE LET close == {i \in DOMAIN t : t[i] = ">"}
         IN IF t[1] = "<" /\ close # {}
            THEN <<SubSeq(t, 1, SetMin(close))>>
                    \o Markers(SubSeq(t, SetMin(close) + 1, Len(t)))
            ELSE <<<<t[1]>>>> \o Markers(Tail(t))

\* the marker that stands for tok after the rewriting: the global one when
\* tok opens or closes a mapped local tag, tok itself otherwise
RewrittenMarker(tok, items) ==
    IF \E i \in DOMAIN items : tok = OpenMarker(LocalTag(items[i][1]))
    THEN OpenMarker(GlobalTag(items[CHOOSE i \in DOMAIN items :
                                       tok = OpenMarker(LocalTag(items[i][1]))][2]))
    ELSE IF \E i \in DOMAIN items : tok = CloseMarker(LocalTag(items[i][1]))
    THEN CloseMarker(GlobalTag(items[CHOOSE i \in DOMAIN items :
                                        tok = CloseMarker(LocalTag(items[i][1]))][2]))
    ELSE tok

\* the markers with those of the mapped local tags exchanged, nothing else
\* touched, put together again
ExchangedMarkers(markers, items) ==
    ConcatSegs([i \in DOMAIN markers |-> RewrittenMarker(markers[i], items)])

ExactRewrite(t, mapping) == ExchangedMarkers(Markers(t), mapping.items)

\* every tag is opened as often as it is closed
EachTagMatched(markers) ==
    \A tag \in {LocalTag(K) : K \in {1, 2, 12}} \cup {GlobalTag(N) : N \in GlobalKeys} :
        Cardinality({i \in DOMAIN markers : markers[i] = OpenMarker(tag)})
           = Cardinality({i \in DOMAIN markers : markers[i] = CloseMarker(tag)})

MarkersMatched(t) == EachTagMatched(Markers(t))

\* the text the k-th rewriting returned
RewriteResult(k) == IF k < Len(rewrites) THEN rewrites[k + 1] ELSE styled_text

(* C16: the rewriting of local tags into global ones is exact and          *)
(* idempotent: one application exchanges every <sK> and </sK> of a mapped  *)
(* local tag for <gsN> and </gsN>, leaves every other tag and all text as  *)
(* they were, keeps opening and closing markers matched, and a second      *)
(* application changes nothing, for every mapping.                         *)
C16_RewriteExactIdempotent ==
    \A k \in DOMAIN rewrites :
        /\ RewriteResult(k) = ExactRewrite(rewrites[k], block_mapping)
        /\ MarkersMatched(RewriteResult(k))
        /\ k >= 2 => RewriteResult(k) = rewrites[k]

\* a text rewritten twice under a mapping of two local tags, the first
\* rewriting having changed it while an unmapped local tag stayed
C16_Witness ==
    /\ Len(rewrites) = 2
    /\ Len(block_mapping.items) = 2
    /\ rewrites[2] # rewrites[1]
    /\ IsSubstr(OpenMarker(LocalTag(2)), styled_text)
    /\ IsSubstr(OpenMarker(LocalTag(12)), rewrites[1])


\* the spans a block holds, in its order
SpansOfBlock(b) == [i \in DOMAIN b.matching_spans |-> SpanOf(heap[b.matching_spans[i]].id)]

(* C17: after the enrichment, every block that has at least one matched    *)
(* span has as default_style the font, size and colour of its dominant     *)
(* style, the one that covers the most characters of its spans.            *)
C17_DefaultStyleIsDominant ==
    pc = "enriched" =>
        \A b \in DOMAIN enriched_data :
            enriched_data[b].matching_spans # <<>> =>
                \E i \in DOMAIN enriched_data[b].matching_spans :
                    /\ enriched_data[b].default_style = SpanStyle(SpansOfBlock(enriched_data[b])[i])
                    /\ \A j \in DOMAIN enriched_data[b].matching_spans :
                          StyleFreq(SpansOfBlock(enriched_data[b]),
                                    StyleKey5(SpansOfBlock(enriched_data[b])[j]))
                             <= StyleFreq(SpansOfBlock(enriched_data[b]),
                                          StyleKey5(SpansOfBlock(enriched_data[b])[i]))


\* the style of the first span a block holds
StyleOfFirstSpan(b, h) == SpanStyle(SpanOf(h[b.matching_spans[1]].id))

(* C18: an add_spans_to_block call that gives spans to a block that had    *)
(* none leaves it with the font, size and colour of the first span added   *)
(* as default_style; a call on a block that already had spans, or a call   *)
(* that adds nothing, leaves default_style as it was.                      *)
C18_EmptyBlockAdoptsFirstSpan ==
    [][\A cur \in DOMAIN enriched_data :
          \A items \in DistinctSeqs(AvailableSpans(cur), 1, MaxSel) :
             add_spans_to_block(cur, items) =>
                LET before == enriched_data[cur]
                    after == enriched_data'[IdxOfOid(enriched_data', before.oid)]
                IN IF before.matching_spans = <<>> /\ after.matching_spans # <<>>
                   THEN after.default_style = StyleOfFirstSpan(after, heap')
                   ELSE after.default_style = before.default_style]_vars

\* a layout block that no span of the page lies in, so that the enrichment
\* left it empty, now holds two spans of different styles, the span
\* extracted last in front, and has the style of that span
C18_Witness ==
    /\ pc = "enriched"
    /\ \E b \in DOMAIN enriched_data :
          /\ enriched_data[b].id.k = "bloc"
          /\ \A i \in DOMAIN pymupdf_spans :
                ~spans_overlap(pymupdf_spans[i].bbox, <<10, 10, 50, 30>>)
          /\ Len(enriched_data[b].matching_spans) = 2
          /\ heap[enriched_data[b].matching_spans[1]].id = 1
          /\ heap[enriched_data[b].matching_spans[2]].id = 0
          /\ SpanStyle(SpanOf(0)) # SpanStyle(SpanOf(1))
          /\ enriched_data[b].default_style = SpanStyle(SpanOf(1))


\* get_document_default_style(): the fixed style of the blocks without
\* spans, as an entry of the table
SafeStyle == [police |-> "Helvetica", taille |-> Mul02(60), couleur |-> 0]

\* a style whose font or size is missing or None
Incomplete(style) ==
    \/ Field(style, "police", "") = NoFont
    \/ style.taille = NoSize

(* C19: every entry of the global style table has a font, a size and a     *)
(* colour that are not None, also when the style registered has a missing  *)
(* or None font or size: such a style is registered as the fixed safe      *)
(* style.                                                                  *)
C19_NoNullEntry ==
    \A i \in DOMAIN calls :
        /\ calls[i].table[calls[i].key].police # NoFont
        /\ Incomplete(calls[i].style) => calls[i].table[calls[i].key] = SafeStyle


\* the indices of the ladder values whose line count is at most the target
FittingLevels(segs, block, target) ==
    {i \in DOMAIN Ladder :
        calculate_reflow(segs, block, SvgMapping, Ladder[i]) <= target}

\* the result compress_block_lines owes to the ladder values that fit
FirstFitChosen(result, fits) ==
    /\ (result.is_fitted /\ result.mode = "scaled_spacing") => fits = {}
    /\ fits # {} =>
          /\ result.is_fitted
          /\ result.mode = "original_spacing"
          /\ \A i \in fits : result.lvl = Ladder[i] \/ \E j \in fits : j < i

(* C20: compress_block_lines returns a scaled_spacing result only if no    *)
(* ladder value gives at most the target number of lines; otherwise it     *)
(* returns, in original_spacing mode, the first ladder value (font_scale   *)
(* from 1.00 down to 0.65, char_space from 0 down to -0.20 within each)    *)
(* whose line count is at most the target.                                 *)
C20_ScaledOnlyWhenNothingFits ==
    (pc = "compressed" /\ fitted.by = "compress_block_lines") =>
        FirstFitChosen(fitted, FittingLevels(parsed_segments, block_for_reflow,
                                             block_for_reflow.lignes_originales))


\* the advance of a line at the original spacing: the default size, in
\* 1/2000 pt
OriginalAdvance(block, styles) == RenderDefaultStyle(block, styles).taille.h * 20

(* C21: for every block drawn by create_text_overlay_pdf, draw_text_block  *)
(* advances every line by the original, unscaled line spacing when the     *)
(* layout was accepted in original-spacing mode, and by the spacing scaled *)
(* by font_scale only when it was accepted in scaled-spacing mode.         *)
C21_SpacingModeReachesRenderer ==
    pc = "drawn" =>
        \A i \in DOMAIN fitted.lines :
            IF fitted.mode = "original_spacing"
            THEN fitted.advances[i] = OriginalAdvance(block_for_reflow, global_styles)
            ELSE fitted.advances[i] = max_h(fitted.lines[i])

\* the layout blocks of the page in the order the enrichment takes them
Processed == standardized_blocks(page_data)

\* block a comes no later than block b in ascending (top, left) order
TopLeftOrdered(a, b) ==
    \/ a.bbox[2] < b.bbox[2]
    \/ a.bbox[2] = b.bbox[2] /\ a.bbox[1] <= b.bbox[1]

\* the places in the order of the blocks an extracted span qualifies for
QualifyingPlaces(span) == {j \in DOMAIN Processed : Qualifies(span, Processed[j])}

(* C22: the enrichment takes the layout blocks in ascending (bbox top,     *)
(* bbox left) order; a span that qualifies for several blocks is assigned  *)
(* to the first of them in that order and to no later block, and a span    *)
(* that qualifies for none is assigned to no layout block.                 *)
C22_FirstBlockInOrderClaims ==
    pc = "enriched" =>
        /\ \A i, j \in DOMAIN Processed : i < j => TopLeftOrdered(Processed[i], Processed[j])
        /\ \A b \in Range(page_data) \cup Range(Processed) :
              Cardinality({i \in DOMAIN Processed : Processed[i] = b})
                 = Cardinality({i \in DOMAIN page_data :
                      /\ page_data[i] = b
                      /\ b.type \in {"title", "text"}
                      /\ Len(b.bbox) = 4})
        /\ \A r \in DOMAIN heap :
              LET places == QualifyingPlaces(SpanOf(heap[r].id))
                  holders == {j \in DOMAIN Processed :
                                 heap[r].id \in SpanIds(enriched_data[j])}
              IN IF places = {}
                 THEN holders = {} /\ heap[r].matched_to_block = None
                 ELSE /\ holders = {SetMin(places)}
                      /\ heap[r].matched_to_block = IdxVal(SetMin(places) - 1)

\* a page whose blocks are not given in (top, left) order, with a span that
\* qualifies for both and is held by the upper one
C22_Witness ==
    /\ pc = "enriched"
    /\ Len(page_data) = 2
    /\ Processed = <<page_data[2], page_data[1]>>
    /\ ~TopLeftOrdered(page_data[1], page_data[2])
    /\ \E r \in DOMAIN heap :
          /\ QualifyingPlaces(SpanOf(heap[r].id)) = {1, 2}
          /\ heap[r].id \in SpanIds(enriched_data[1])

\* the spans a layout block has received, in the order of its list
Received(block) == [i \in DOMAIN block.matching_spans |-> SpanOf(heap[block.matching_spans[i]].id)]

\* the candidates the block accepts: the spans that qualify for it
Accepted1(block) == {s \in Range(pymupdf_spans) : Qualifies(s, block)}

\* anchor gives every received span the top of a span of its line; the
\* anchor of a line is the top of its first extracted span, the spans of a
\* line are within the tolerance of it and two anchors are further apart
LinesByAnchor(got, anchor) ==
    /\ \A i \in DOMAIN got :
          /\ AbsDiff(got[i].bbox[2], anchor[i]) <= y_tolerance
          /\ \E j \in DOMAIN got :
                /\ anchor[j] = anchor[i]
                /\ got[j].bbox[2] = anchor[i]
                /\ \A k \in DOMAIN got : anchor[k] = anchor[i] => got[j].id <= got[k].id
    /\ \A i, j \in DOMAIN got :
          anchor[i] # anchor[j] => AbsDiff(anchor[i], anchor[j]) > y_tolerance

\* lines in ascending anchor order, the spans of a line in ascending left
ReadingOrder(got, anchor) ==
    \A i, j \in DOMAIN got :
        i < j => \/ anchor[i] < anchor[j]
                 \/ anchor[i] = anchor[j] /\ got[i].bbox[1] <= got[j].bbox[1]

(* C23: the spans a block receives from _find_matching_spans_for_block are *)
(* in reading order: grouped into lines by top within the 1px tolerance of *)
(* the anchor of the line, lines in ascending anchor, the spans of a line  *)
(* in ascending left; and they are the accepted candidates, each once.     *)
C23_SpansInReadingOrder ==
    pc = "enriched" =>
        LET got == Received(enriched_data[1])
        IN /\ {got[i] : i \in DOMAIN got} = Accepted1(page_data[1])
           /\ Len(got) = Cardinality(Accepted1(page_data[1]))
           /\ \E anchor \in [DOMAIN got -> {got[i].bbox[2] : i \in DOMAIN got}] :
                 LinesByAnchor(got, anchor) /\ ReadingOrder(got, anchor)

\* three spans received that were extracted in another order: two lines,
\* the first with two spans whose tops differ
C23_Witness ==
    /\ pc = "enriched"
    /\ Len(enriched_data[1].matching_spans) = 3
    /\ LET got == Received(enriched_data[1])
       IN /\ got[1].id > got[2].id
          /\ got[1].bbox[2] > got[2].bbox[2]
          /\ got[3].bbox[2] > got[1].bbox[2]
          /\ got[3].id < got[1].id

\* the spans of a block that carry text
TextSpans(block) ==
    SelectIdx(SpansOfBlock(block), {i \in DOMAIN block.matching_spans :
                                       SpansOfBlock(block)[i].text # <<>>})

\* the characters that the spans of a style triple cover
TripleFreq(spans, style) ==
    SumLen(SelectIdx(spans, {i \in DOMAIN spans : SpanStyle(spans[i]) = style}))

\* the style triples that cover the most characters
DominantTriples(spans) ==
    {SpanStyle(spans[i]) : i \in {j \in DOMAIN spans :
        \A k \in DOMAIN spans :
            TripleFreq(spans, SpanStyle(spans[k])) <= TripleFreq(spans, SpanStyle(spans[j]))}}

\* the tags a block may use: its local ones and the global ones
TagsOf(block) ==
    {[t |-> "local", n |-> K] : K \in DOMAIN block.additional_styles}
    \cup {[t |-> "global", n |-> N] : N \in DOMAIN global_styles}

TagName(tag) == IF tag.t = "local" THEN LocalTag(tag.n) ELSE GlobalTag(tag.n)

\* the tag resolves to the style
Resolves(tag, style, block) ==
    IF tag.t = "local" THEN block.additional_styles[tag.n] = style
    ELSE SameAsGlobal(style, global_styles[tag.n])

\* the spans, those not of the dominant style between the markers of the
\* tag of their style
RECURSIVE Wrapped(_, _, _)
Wrapped(spans, dominant, tagOf) ==
    IF spans = <<>> THEN <<>>
    ELSE (IF SpanStyle(Head(spans)) = dominant THEN Head(spans).text
          ELSE OpenMarker(TagName(tagOf[SpanStyle(Head(spans))])) \o Head(spans).text
                  \o CloseMarker(TagName(tagOf[SpanStyle(Head(spans))])))
         \o Wrapped(Tail(spans), dominant, tagOf)

\* a text up to its white space
Tidy(t) ==
    Strip(Replace(Replace(WhitespaceToSpace(t), <<" ", "<", "/">>, <<"<", "/">>),
                  <<">", " ", "<">>, <<">", "<">>))

\* the text is the spans of the block tagged by style around a dominant one
TaggedByStyle(text, block) ==
    \E dominant \in DominantTriples(TextSpans(block)) :
        LET others == {SpanStyle(TextSpans(block)[i]) : i \in DOMAIN TextSpans(block)}
                         \ {dominant}
        IN \E tagOf \in [others -> TagsOf(block)] :
              /\ \A style \in others : Resolves(tagOf[style], style, block)
              /\ Tidy(text) = Tidy(Wrapped(TextSpans(block), dominant, tagOf))

(* C24: the tagged content of a block, at the enrichment and in the        *)
(* translation source rebuilt from its spans, wraps every span whose font, *)
(* size and colour differ from the dominant style of the block in the      *)
(* opening and closing tag that resolves to the style of the span, spans   *)
(* of one style in one tag, and leaves the spans of the dominant style     *)
(* without a tag.                                                          *)
C24_TaggedByStyle ==
    /\ pc \in {"enriched", "exported", "saved"} =>
          \A b \in DOMAIN enriched_data :
              TextSpans(enriched_data[b]) # <<>> =>
                  TaggedByStyle(enriched_data[b].styled_content, enriched_data[b])
    /\ pc \in {"exported", "saved"} =>
          \A b \in DOMAIN enriched_data :
              \A r \in DOMAIN translation_data :
                  (translation_data[r].id = enriched_data[b].id
                      /\ TextSpans(enriched_data[b]) # <<>>) =>
                      TaggedByStyle(translation_data[r].source, enriched_data[b])

\* the rebuilt source alone
C24_RebuiltTaggedByStyle ==
    pc \in {"exported", "saved"} =>
        \A b \in DOMAIN enriched_data :
            \A r \in DOMAIN translation_data :
                (translation_data[r].id = enriched_data[b].id
                    /\ TextSpans(enriched_data[b]) # <<>>) =>
                    TaggedByStyle(translation_data[r].source, enriched_data[b])

\* the members of group g, by merge_order
MembersInOrder(g) ==
    SortByMergeOrder(SelectIdx(enriched_data,
                               {i \in DOMAIN enriched_data : enriched_data[i].merge_group_id = g}))

\* gsN is the entry of the registry for the style
Registered(N, style) ==
    /\ global_styles[N].police = style.police
    /\ global_styles[N].taille = normalized_size(style.taille)
    /\ global_styles[N].couleur = style.couleur

\* the spans of a member, those not of the reference style between the
\* markers of the global tag of their style
RECURSIVE WrappedGlobal(_, _, _)
WrappedGlobal(spans, reference, tagOf) ==
    IF spans = <<>> THEN <<>>
    ELSE (IF SpanStyle(Head(spans)) = reference THEN Head(spans).text
          ELSE OpenMarker(GlobalTag(tagOf[SpanStyle(Head(spans))])) \o Head(spans).text
                  \o CloseMarker(GlobalTag(tagOf[SpanStyle(Head(spans))])))
         \o WrappedGlobal(Tail(spans), reference, tagOf)

\* the styles of the spans of the members other than the reference style
OtherStyles(members) ==
    {SpanStyle(TextSpans(members[i])[j]) :
        <<i, j>> \in {p \in (DOMAIN members) \X (1..MaxGroupSpans) :
                         p[2] \in DOMAIN TextSpans(members[p[1]])}}
    \ {members[1].default_style}

(* C25: in the source of a merge group every span of a member whose style  *)
(* differs from the reference style, the default style of the member with  *)
(* the lowest merge_order, is wrapped in the global tag registered for its *)
(* style, one tag per style over all the members, the spans in the default *)
(* style of a later member included.                                       *)
C25_GroupTaggedByStyle ==
    pc \in {"exported", "saved"} =>
        \A r \in DOMAIN translation_data :
            translation_data[r].id.k = "group" =>
                LET members == MembersInOrder(translation_data[r].id.n)
                IN \E tagOf \in [OtherStyles(members) -> DOMAIN global_styles] :
                      /\ \A style \in OtherStyles(members) : Registered(tagOf[style], style)
                      /\ Tidy(translation_data[r].source)
                            = Tidy(JoinWithSpace(
                                  [i \in DOMAIN members |->
                                      Tidy(WrappedGlobal(TextSpans(members[i]),
                                                         members[1].default_style, tagOf))]))

\* the same for the export of the window alone, and sizes on the 0.2 grid
C25_GroupTaggedInWindow ==
    (pc = "exported" /\ \A i \in DOMAIN pymupdf_spans : pymupdf_spans[i].font_size = 1000) =>
        \A r \in DOMAIN translation_data :
            translation_data[r].id.k = "group" =>
                LET members == MembersInOrder(translation_data[r].id.n)
                IN \E tagOf \in [OtherStyles(members) -> DOMAIN global_styles] :
                      /\ \A style \in OtherStyles(members) : Registered(tagOf[style], style)
                      /\ Tidy(translation_data[r].source)
                            = Tidy(JoinWithSpace(
                                  [i \in DOMAIN members |->
                                      Tidy(WrappedGlobal(TextSpans(members[i]),
                                                         members[1].default_style, tagOf))]))

\* the width of a line up to its last item that is not white space
RECURSIVE WidthUpTo(_, _)
WidthUpTo(line, n) == IF n = 0 THEN 0 ELSE line[n].w + WidthUpTo(line, n - 1)

InkWidth(line) ==
    WidthUpTo(line, SetMax({0} \cup {i \in DOMAIN line : ~line[i].space}))

\* the line holds one item that is not white space, wider than the limit
LoneWideItem(line, limit) ==
    /\ Cardinality({i \in DOMAIN line : ~line[i].space}) = 1
    /\ \E i \in DOMAIN line : ~line[i].space /\ line[i].w > limit

\* the items of the segments in their order, without the newlines
ItemsInOrder(segs, lvl) ==
    SelectIdx(ConcatSegs([i \in DOMAIN segs |-> SegItems(segs[i], SvgMapping, lvl)]),
              {j \in DOMAIN ConcatSegs([i \in DOMAIN segs |->
                                           SegItems(segs[i], SvgMapping, lvl)]) :
                  ConcatSegs([i \in DOMAIN segs |->
                                 SegItems(segs[i], SvgMapping, lvl)])[j].kind # "newline"})

\* the lines are within the width they were filled against and hold the
\* items of the segments
LinesWithin(lines, indexes, block, items) ==
    /\ \A k \in DOMAIN lines :
          \/ InkWidth(lines[k]) <= EffectiveMaxWidth(block, indexes[k])
          \/ LoneWideItem(lines[k], EffectiveMaxWidth(block, indexes[k]))
    /\ ConcatSegs(lines) = items

(* C26: in every layout of calculate_reflow the width of a line up to its  *)
(* last token that is not white space is at most the effective width of    *)
(* the line, unless the line holds a single such token wider than that     *)
(* width; the lines hold the tokens of the text whole, in their order, all *)
(* of them.                                                                *)
C26_LinesWithinWidth ==
    pc = "measured" =>
        \A lvl \in ReflowLevels :
            LinesWithin(reflow_lines(parsed_segments, block_for_reflow, SvgMapping, lvl),
                        reflow_indexes(parsed_segments, block_for_reflow, SvgMapping, lvl),
                        block_for_reflow, ItemsInOrder(parsed_segments, lvl))

\* a layout of several lines, one of them a single token wider than its
\* width, another one filled to less than a token under its width
C26_Witness ==
    /\ pc = "measured"
    /\ \E lvl \in ReflowLevels :
          LET lines == reflow_lines(parsed_segments, block_for_reflow, SvgMapping, lvl)
              indexes == reflow_indexes(parsed_segments, block_for_reflow, SvgMapping, lvl)
          IN /\ Len(lines) >= 3
             /\ \E k \in DOMAIN lines :
                   LoneWideItem(lines[k], EffectiveMaxWidth(block_for_reflow, indexes[k]))
             /\ \E k \in DOMAIN lines :
                   /\ k < Len(lines)
                   /\ Cardinality({i \in DOMAIN lines[k] : ~lines[k][i].space}) >= 2
                   /\ InkWidth(lines[k]) + lines[k + 1][1].w
                         > EffectiveMaxWidth(block_for_reflow, indexes[k])

(* C27: in a list block, line k of the layout of calculate_reflow is       *)
(* wrapped against the width less the indent when k = 0 or the list hangs, *)
(* and against the whole width otherwise, whatever the text, newlines in   *)
(* front of it or in a row included: the usable width of line k in         *)
(* draw_text_block.                                                        *)
C27_ListLineWidth ==
    (pc = "measured" /\ Field(block_for_reflow, "is_list", FALSE)) =>
        \A lvl \in ReflowLevels :
            LET indexes == reflow_indexes(parsed_segments, block_for_reflow, SvgMapping, lvl)
            IN \A k \in DOMAIN indexes :
                  EffectiveMaxWidth(block_for_reflow, indexes[k])
                     = usable_width(block_for_reflow, k - 1)

\* the same seen on the lines: no line is wider than the width it is drawn in
C27_ListLineFitsDrawnWidth ==
    (pc = "measured" /\ Field(block_for_reflow, "is_list", FALSE)) =>
        \A lvl \in ReflowLevels :
            LET lines == reflow_lines(parsed_segments, block_for_reflow, SvgMapping, lvl)
            IN \A k \in DOMAIN lines :
                  \/ InkWidth(lines[k]) <= usable_width(block_for_reflow, k - 1)
                  \/ LoneWideItem(lines[k], usable_width(block_for_reflow, k - 1))

\* the step is an undo that follows a modifying action at once
UndoAfterAction == last_call # <<>> /\ last_call.op = "save_state" /\ last_call'.op = "undo"

\* the step is a redo that follows such an undo at once
RedoAfterUndo ==
    /\ last_call # <<>>
    /\ last_call.op = "undo"
    /\ last_call.state # NoState
    /\ last_call'.op = "redo"

(* C28: with save_state called right before every modifying action, an     *)
(* undo after an action puts the enriched data back to what it was just    *)
(* before the action, the first action and a full history included, and a  *)
(* redo right after that undo puts back the data the undo left.            *)
C28_UndoRestoresStateBefore ==
    [][/\ UndoAfterAction => editor_data' = last_call.editor_data
       /\ RedoAfterUndo => editor_data' = last_call.editor_data]_vars

\* the undo alone, the first action left aside
C28_UndoRestoresAfterFirst ==
    [][(UndoAfterAction /\ Len(history) >= 2) => editor_data' = last_call.editor_data]_vars

(* C29: the history holds at most MAX_HISTORY entries; history_index is -1 *)
(* exactly when the history is empty and an index of the history           *)
(* otherwise; after save_state the index is on the saved state, the last   *)
(* entry, and nothing can be redone; an undo or redo that is not possible  *)
(* returns None and leaves the history and the index as they were.         *)
C29_HistoryInvariants ==
    /\ Len(history) <= MAX_HISTORY
    /\ (history_index = -1) <=> (history = <<>>)
    /\ history # <<>> => history_index \in 0..(Len(history) - 1)
    /\ (last_call # <<>> /\ last_call.op = "save_state") =>
          /\ history_index = Len(history) - 1
          /\ history[Len(history)] = last_call.state
          /\ ~can_redo(Manager)
    /\ (last_call # <<>> /\ last_call.op = "undo" /\ last_call.history_index <= 0) =>
          /\ last_call.state = NoState
          /\ history = last_call.history
          /\ history_index = last_call.history_index
    /\ (last_call # <<>> /\ last_call.op = "redo"
           /\ last_call.history_index >= Len(last_call.history) - 1) =>
          /\ last_call.state = NoState
          /\ history = last_call.history
          /\ history_index = last_call.history_index

\* a state saved on a full history that had states to redo
C29_Witness ==
    /\ last_call # <<>>
    /\ last_call.op = "save_state"
    /\ Len(last_call.history) = MAX_HISTORY
    /\ last_call.history_index < MAX_HISTORY - 1
    /\ reverts > 0

\* the block has a record: its own, or that of its merge group
HasRecord(block) ==
    \E r \in DOMAIN translation_data :
        \/ translation_data[r].id = block.id
        \/ block.merge_group_id # 0 /\ translation_data[r].id = GroupId(block.merge_group_id)

\* a span of the block is matched to another block
SpanMatchedElsewhere(block) ==
    \E i \in DOMAIN block.matching_spans :
        /\ heap[block.matching_spans[i]].matched_to_block # None
        /\ heap[block.matching_spans[i]].matched_to_block # block.id

RecordIdsDistinct ==
    \A r1, r2 \in DOMAIN translation_data :
        r1 # r2 => translation_data[r1].id # translation_data[r2].id

MembersOnlyInGroupRecord ==
    \A b \in DOMAIN enriched_data :
        enriched_data[b].merge_group_id # 0 =>
            \A r \in DOMAIN translation_data : translation_data[r].id # enriched_data[b].id

SetAsideIsolatedSilent ==
    \A b \in DOMAIN enriched_data :
        (/\ enriched_data[b].block_type = "isolated_span"
         /\ enriched_data[b].merge_group_id = 0
         /\ \/ enriched_data[b].is_consumed = "yes"
            \/ enriched_data[b].include_in_output = "no"
            \/ SpanMatchedElsewhere(enriched_data[b])) =>
            \A r \in DOMAIN translation_data : translation_data[r].id # enriched_data[b].id

NoSpanInTwoRecords ==
    \A b1, b2 \in DOMAIN enriched_data :
        (b1 # b2 /\ HasRecord(enriched_data[b1]) /\ HasRecord(enriched_data[b2])) =>
            SpanIds(enriched_data[b1]) \cap SpanIds(enriched_data[b2]) = {}

(* C30: in the translation records of a page reached by the correction     *)
(* operations the ids are pairwise distinct, a block of a merge group is    *)
(* only in the record of its group, an isolated-span block that is         *)
(* consumed, excluded from the output or whose span is matched to another  *)
(* block has no record, and no span is exported in two records.            *)
C30_RecordsDisjoint ==
    pc \in {"exported", "saved"} =>
        /\ RecordIdsDistinct
        /\ MembersOnlyInGroupRecord
        /\ SetAsideIsolatedSilent
        /\ NoSpanInTwoRecords

C30_IdsDistinct == pc \in {"exported", "saved"} => RecordIdsDistinct

C30_MembersOnlyInGroup == pc \in {"exported", "saved"} => MembersOnlyInGroupRecord

C30_SetAsideSilent == pc \in {"exported", "saved"} => SetAsideIsolatedSilent

C30_NoSpanTwice == pc \in {"exported", "saved"} => NoSpanInTwoRecords

\* the same for the blocks whose id no other block of the page has
C30_SetAsideSilentUniqueIds ==
    pc \in {"exported", "saved"} =>
        \A b \in DOMAIN enriched_data :
            (/\ enriched_data[b].block_type = "isolated_span"
             /\ enriched_data[b].merge_group_id = 0
             /\ \A c \in DOMAIN enriched_data : c # b => enriched_data[c].id # enriched_data[b].id
             /\ \/ enriched_data[b].is_consumed = "yes"
                \/ enriched_data[b].include_in_output = "no"
                \/ SpanMatchedElsewhere(enriched_data[b])) =>
                \A r \in DOMAIN translation_data : translation_data[r].id # enriched_data[b].id

=============================================================================
